---- MODULE Spec2Model ----
(***************************************************************************)
(* A model of release_notes_builder: the classifier (preclass.py), the     *)
(* schema validator (schema.py), the consolidator's attempt/repair loop    *)
(* (llm_consolidator.py), the renderer (renderer.py) and main (cli.py).    *)
(*                                                                         *)
(* Python strings are sequences of one-character strings, so that split,   *)
(* strip, lower, startswith and the regular expression act on characters.  *)
(* JSON values are tagged records [t |-> tag, v |-> value]; the keys of a  *)
(* JSON object are TLA+ strings (they are only compared with constants).   *)
(***************************************************************************)
EXTENDS Integers, Sequences, FiniteSets, TLC

VARIABLES
    \* consolidate_openai (llm_consolidator.py)
    cpc,          \* position in consolidate_openai
    attempt,      \* the loop variable of `for attempt in range(3)`
    temperature,  \* the temperature argument, in tenths
    apiKey,       \* whether OPENAI_API_KEY is set
    content,      \* resp.choices[0].message.content of the last call
    invocations,  \* the model calls made so far, in order
    sleeps,       \* the arguments of the time.sleep calls made so far, as doubles
    log,          \* the log records written so far
    outcome,      \* what the call did: running, returned a document, raised
    \* classify (preclass.py)
    pr,           \* the change record
    hashSeed,     \* the seed of the process's str hashes, which orders set iteration
    results,      \* what the calls of classify on pr returned, in order
    \* main (cli.py)
    mpc,          \* where main is
    run,          \* what the run is given: arguments, configuration, environment,
                  \* and what the model's endpoint answers
    snapshots,    \* the snapshots of the repositories fetched so far
    modelCalls,   \* how often the run has invoked the model
    llm_out,      \* what the call of consolidate_openai did
    rendered,     \* whether render_md has been called
    outfile,      \* the output file: whether it was opened for writing, and its text
    exitStatus,   \* "running", the exit code, or the exception main ended with
    \* the helpers of the consolidator, applied to one parsed document
    hdoc,         \* the document
    hvalid,       \* what is_valid_release(hdoc) returned: "none" before the call
    hfilled,      \* what _ensure_required_defaults(hdoc) returned, and its validity
    hcoerced,     \* what _coerce_legacy(hdoc) returned or that it raised
    \* render_md (renderer.py), applied to one document
    rdoc,         \* the document
    rmd,          \* `lines` at the end of render_md(rdoc), and the text returned
    \* GitHubFetcher.fetch_prs (github_fetcher.py), one call
    fpc,          \* where the call is: idle, start, search, returned, raised
    fdate_range,  \* where date_range comes from: none, compare, since_date
    fpage,        \* page
    fprs,         \* prs, each record by its number
    discovered,   \* the numbers of the search results received so far, in order
    pageSizes,    \* how many items each search page received so far held
    failed        \* the requests for a search page or a record that have failed

cvars == <<cpc, attempt, temperature, apiKey, content, invocations, sleeps, log, outcome>>

pvars == <<pr, hashSeed, results>>

mvars == <<mpc, run, snapshots, modelCalls, llm_out, rendered, outfile, exitStatus>>

hvars == <<hdoc, hvalid, hfilled, hcoerced>>

rvars == <<rdoc, rmd>>

fvars == <<fpc, fdate_range, fpage, fprs, discovered, pageSizes, failed>>

vars == <<cvars, pvars, mvars, hvars, rvars, fvars>>

----------------------------------------------------------------------------
(* Strings *)

S_empty == <<>>
S_Breaking_Changes == <<"B", "r", "e", "a", "k", "i", "n", "g", " ", "C", "h", "a", "n", "g", "e", "s">>
S_Features == <<"F", "e", "a", "t", "u", "r", "e", "s">>
S_Fixes == <<"F", "i", "x", "e", "s">>
S_Performance == <<"P", "e", "r", "f", "o", "r", "m", "a", "n", "c", "e">>
S_Docs == <<"D", "o", "c", "s">>
S_Chore == <<"C", "h", "o", "r", "e">>
S_unknown_unknown == <<"u", "n", "k", "n", "o", "w", "n", "/", "u", "n", "k", "n", "o", "w", "n">>

\* s[from..] as Python slices it (from is 1-based here)
Drop(s, n) == SubSeq(s, n + 1, Len(s))
Take(s, n) == SubSeq(s, 1, n)

\* s.startswith(p)
StartsWith(s, p) == Len(p) <= Len(s) /\ Take(s, Len(p)) = p

\* s.endswith(p)
EndsWith(s, p) == Len(p) <= Len(s) /\ Drop(s, Len(s) - Len(p)) = p

\* s.find(p), 1-based; 0 when p does not occur
Find(s, p) ==
    LET hits == {i \in 1..(Len(s) - Len(p) + 1) : SubSeq(s, i, i + Len(p) - 1) = p}
    IN IF hits = {} THEN 0 ELSE CHOOSE i \in hits : \A j \in hits : i <= j

\* p in s
Contains(s, p) == Find(s, p) > 0

----------------------------------------------------------------------------
(* JSON values, and the Python operations the code applies to them *)

JNull == [t |-> "null"]
JBool(b) == [t |-> "bool", v |-> b]
JInt(n) == [t |-> "int", v |-> n]
JStr(s) == [t |-> "str", v |-> s]
JArr(a) == [t |-> "arr", v |-> a]
JObj(o) == [t |-> "obj", v |-> o]

\* bool(j): None, False, 0, "", [] and {} are falsy
Truthy(j) ==
    CASE j.t = "null" -> FALSE
      [] j.t = "bool" -> j.v
      [] j.t = "int" -> j.v # 0
      [] j.t = "str" -> Len(j.v) > 0
      [] j.t = "arr" -> Len(j.v) > 0
      [] j.t = "obj" -> DOMAIN j.v # {}

\* d.get(key), for a dict d: None when the key is missing
Get(d, key) == IF key \in DOMAIN d.v THEN d.v[key] ELSE JNull

\* d.get(key, default)
GetOr(d, key, default) == IF key \in DOMAIN d.v THEN d.v[key] ELSE default

\* a or b
PyOr(a, b) == IF Truthy(a) THEN a ELSE b

----------------------------------------------------------------------------
(* schema.py: RELEASE_SCHEMA under Draft7Validator *)

RequiredTop == {"tldr", "repos", "upgrade_notes", "contributors"}

\* {"type": "integer"}: Draft 7 takes an int that is not a bool
IsInteger(j) == j.t = "int"

\* {"type": "array", "items": {"type": "string"}}
IsStringArray(j) == j.t = "arr" /\ \A i \in DOMAIN j.v : j.v[i].t = "str"

\* an entry of items: required text (string) and prs (array of integer)
ValidItem(it) ==
    /\ it.t = "obj"
    /\ {"text", "prs"} \subseteq DOMAIN it.v
    /\ it.v["text"].t = "str"
    /\ it.v["prs"].t = "arr"
    /\ \A i \in DOMAIN it.v["prs"].v : IsInteger(it.v["prs"].v[i])

\* an entry of sections: required title (string) and items (array)
ValidSection(sec) ==
    /\ sec.t = "obj"
    /\ {"title", "items"} \subseteq DOMAIN sec.v
    /\ sec.v["title"].t = "str"
    /\ sec.v["items"].t = "arr"
    /\ \A i \in DOMAIN sec.v["items"].v : ValidItem(sec.v["items"].v[i])

\* an entry of repos: required name (string) and sections (array)
ValidRepo(repo) ==
    /\ repo.t = "obj"
    /\ {"name", "sections"} \subseteq DOMAIN repo.v
    /\ repo.v["name"].t = "str"
    /\ repo.v["sections"].t = "arr"
    /\ \A i \in DOMAIN repo.v["sections"].v : ValidSection(repo.v["sections"].v[i])

is_valid_release(obj) ==
    /\ obj.t = "obj"
    /\ RequiredTop \subseteq DOMAIN obj.v
    /\ IsStringArray(obj.v["tldr"])
    /\ obj.v["repos"].t = "arr"
    /\ \A i \in DOMAIN obj.v["repos"].v : ValidRepo(obj.v["repos"].v[i])
    /\ IsStringArray(obj.v["upgrade_notes"])
    /\ IsStringArray(obj.v["contributors"])

----------------------------------------------------------------------------
(* llm_consolidator.py: the helpers *)

\* A mutant of _ensure_required_defaults: contributors is not defaulted
_ensure_required_defaults_but_one(doc) ==
    IF doc.t # "obj" THEN doc
    ELSE JObj([k \in DOMAIN doc.v \cup (RequiredTop \ {"contributors"}) |->
                 IF k \in DOMAIN doc.v THEN doc.v[k] ELSE JArr(<<>>)])

\* setdefault of the four required keys; a value that is no dict is returned as is
_ensure_required_defaults(doc) ==
    IF doc.t # "obj" THEN doc
    ELSE JObj([k \in DOMAIN doc.v \cup RequiredTop |->
                 IF k \in DOMAIN doc.v THEN doc.v[k] ELSE JArr(<<>>)])

\* The first outcome that is not "F" in a scan from the left: "T" (return True),
\* "E" (an exception) or, when there is none, "F".
FirstOutcome(outs) ==
    LET hits == {i \in DOMAIN outs : outs[i] # "F"}
    IN IF hits = {} THEN "F"
       ELSE outs[CHOOSE i \in hits : \A j \in hits : i <= j]

\* The loops of _has_minimal_content, their elements used as dicts. A list gives
\* its elements; a dict or a str gives its keys or characters, which have no .get;
\* any other value is not iterable.
\* any(items), items truthy or []: "T", "F", or "E" when items is not iterable
AnyOutcome(items) ==
    CASE items.t = "arr" ->
            IF \E i \in DOMAIN items.v : Truthy(items.v[i]) THEN "T" ELSE "F"
      [] items.t = "str" -> "T"
      [] items.t = "obj" -> IF \E k \in DOMAIN items.v : k # "" THEN "T" ELSE "F"
      [] OTHER -> "E"

SecOutcome(sec) ==
    IF sec.t # "obj" THEN "E" ELSE AnyOutcome(PyOr(Get(sec, "items"), JArr(<<>>)))

\* `for x in j` over a value that is no list: nothing to do when it is an empty str
\* or dict, and an exception otherwise
NonListOutcome(j) ==
    CASE j.t = "str" -> IF Len(j.v) = 0 THEN "F" ELSE "E"
      [] j.t = "obj" -> IF DOMAIN j.v = {} THEN "F" ELSE "E"
      [] OTHER -> "E"

\* for sec in repo.get("sections", [])
SectionsOutcome(j) ==
    IF j.t = "arr" THEN FirstOutcome([i \in DOMAIN j.v |-> SecOutcome(j.v[i])])
    ELSE NonListOutcome(j)

RepoOutcome(repo) ==
    IF repo.t # "obj" THEN "E" ELSE SectionsOutcome(GetOr(repo, "sections", JArr(<<>>)))

\* for repo in doc.get("repos", [])
ReposOutcome(j) ==
    IF j.t = "arr" THEN FirstOutcome([i \in DOMAIN j.v |-> RepoOutcome(j.v[i])])
    ELSE NonListOutcome(j)

\* A mutant of _has_minimal_content: it looks at repos, not at the items
_has_minimal_content_repos(doc) ==
    doc.t = "obj" /\ Truthy(GetOr(doc, "repos", JArr(<<>>)))

_has_minimal_content(doc) ==
    /\ doc.t = "obj"
    /\ ReposOutcome(GetOr(doc, "repos", JArr(<<>>))) = "T"

----------------------------------------------------------------------------
(* llm_consolidator.py: legacy coercion *)

Digits == {"0", "1", "2", "3", "4", "5", "6", "7", "8", "9"}

DigitVal(c) ==
    CASE c = "0" -> 0 [] c = "1" -> 1 [] c = "2" -> 2 [] c = "3" -> 3 [] c = "4" -> 4
      [] c = "5" -> 5 [] c = "6" -> 6 [] c = "7" -> 7 [] c = "8" -> 8 [] c = "9" -> 9

Letters == {"a", "b", "c", "d", "e", "f", "g", "h", "i", "j", "k", "l", "m", "n", "o", "p",
            "q", "r", "s", "t", "u", "v", "w", "x", "y", "z",
            "A", "B", "C", "D", "E", "F", "G", "H", "I", "J", "K", "L", "M", "N", "O", "P",
            "Q", "R", "S", "T", "U", "V", "W", "X", "Y", "Z"}

\* urllib.parse.scheme_chars
SchemeChars == Letters \cup Digits \cup {"+", "-", "."}

RECURSIVE DigitsValue(_, _)
DigitsValue(s, acc) ==
    IF s = <<>> THEN acc ELSE DigitsValue(Tail(s), 10 * acc + DigitVal(Head(s)))

\* int(s) for a str s: an optional sign and decimal digits; anything else raises
\* ValueError (ok = FALSE). Surrounding blanks and "_" separators, which int()
\* also takes, are not in the alphabet of the modelled URLs.
ParseInt(s) ==
    LET signed == s # <<>> /\ Head(s) \in {"+", "-"}
        body == IF signed THEN Tail(s) ELSE s
    IN IF body # <<>> /\ \A i \in DOMAIN body : body[i] \in Digits
       THEN [ok |-> TRUE,
             v |-> IF signed /\ Head(s) = "-" THEN 0 - DigitsValue(body, 0)
                   ELSE DigitsValue(body, 0)]
       ELSE [ok |-> FALSE, v |-> 0]

\* The prefix of s before the first character of stops (all of s when none occurs)
UpTo(s, stops) ==
    LET hits == {i \in DOMAIN s : s[i] \in stops}
    IN IF hits = {} THEN s ELSE Take(s, (CHOOSE i \in hits : \A j \in hits : i <= j) - 1)

\* urlparse(url).path: the scheme up to the first ":" (when it is made of scheme
\* characters and starts with a letter) and the netloc after "//" are cut off the
\* front, the fragment and the query off the end.
UrlPath(url) ==
    LET AfterScheme(colon) ==
            IF /\ colon > 1
               /\ url[1] \in Letters
               /\ \A i \in 1..(colon - 1) : url[i] \in SchemeChars
            THEN Drop(url, colon) ELSE url
        AfterNetloc(rest) ==
            IF StartsWith(rest, <<"/", "/">>)
            THEN Drop(rest, 2 + Len(UpTo(Drop(rest, 2), {"/", "?", "#"})))
            ELSE rest
    IN UpTo(UpTo(AfterNetloc(AfterScheme(Find(url, <<":">>))), {"#"}), {"?"})

RECURSIVE LStrip(_, _)
LStrip(s, chars) == IF s # <<>> /\ Head(s) \in chars THEN LStrip(Tail(s), chars) ELSE s

RECURSIVE RStrip(_, _)
RStrip(s, chars) ==
    IF s # <<>> /\ s[Len(s)] \in chars THEN RStrip(Take(s, Len(s) - 1), chars) ELSE s

\* s.strip(chars)
Strip(s, chars) == RStrip(LStrip(s, chars), chars)

\* s.split(sep) for a one-character sep: always at least one part
RECURSIVE Split(_, _)
Split(s, sep) ==
    LET Rest(first) == IF Len(first) = Len(s) THEN <<s>>
                       ELSE <<first>> \o Split(Drop(s, Len(first) + 1), sep)
    IN Rest(UpTo(s, {sep}))

\* Returns (f"{owner}/{repo}", int(num)) from the first, second and fourth parts of
\* the path, and ("", -1) on any exception: a url that is no str, fewer than four
\* parts, a fourth part int() does not take.
_extract_owner_repo_and_number(url) ==
    IF url.t # "str" THEN [name |-> <<>>, num |-> -1]
    ELSE LET Result(parts, num) ==
                 IF ~num.ok THEN [name |-> <<>>, num |-> -1]
                 ELSE [name |-> parts[1] \o <<"/">> \o parts[2], num |-> num.v]
             FromParts(parts) ==
                 IF Len(parts) < 4 THEN [name |-> <<>>, num |-> -1]
                 ELSE Result(parts, ParseInt(parts[4]))
         IN FromParts(Split(Strip(UrlPath(url.v), {"/"}), "/"))

\* CATEGORY_TITLES, each with the dict key it is looked up under
CATEGORY_TITLES ==
    << [key |-> "Breaking Changes", title |-> S_Breaking_Changes],
       [key |-> "Features", title |-> S_Features],
       [key |-> "Fixes", title |-> S_Fixes],
       [key |-> "Performance", title |-> S_Performance],
       [key |-> "Docs", title |-> S_Docs],
       [key |-> "Chore", title |-> S_Chore] >>

LegacyKeys == {"Features", "Fixes", "Chore"}

\* items = doc.get(cat) or []
CatItems(doc, key) == PyOr(Get(doc, key), JArr(<<>>))

\* `for it in items: it.get(...)` raises when items is no list (a str or a dict
\* yields characters or keys, which have no .get; other values are not iterable) or
\* when an element is no dict. CatItems is truthy or [], so a non-list is non-empty.
CatRaises(doc, key) ==
    LET Bad(items) == items.t # "arr" \/ \E i \in DOMAIN items.v : items.v[i].t # "obj"
    IN Bad(CatItems(doc, key))

\* One legacy item: its repository (the sentinel when the url gives none) and the
\* schema item made from it
CoerceItem(it) ==
    LET Made(ex) ==
            [repo |-> IF ex.name = <<>> THEN S_unknown_unknown ELSE ex.name,
             item |-> JObj([text |-> PyOr(PyOr(Get(it, "title"), Get(it, "description")),
                                          JStr(<<>>)),
                            prs |-> JArr(IF ex.num > 0 THEN <<JInt(ex.num)>> ELSE <<>>)])]
    IN Made(_extract_owner_repo_and_number(PyOr(Get(it, "url"), JStr(<<>>))))

\* A mutant of GroupItems: every item makes a group of its own
RECURSIVE GroupItemsApart(_, _)
GroupItemsApart(items, grouped) ==
    IF items = <<>> THEN grouped
    ELSE LET Add(c) == Append(grouped, [name |-> c.repo, items |-> <<c.item>>])
         IN GroupItemsApart(Tail(items), Add(CoerceItem(Head(items))))

\* grouped.setdefault(repo_name, []).append(item), grouped an insertion-ordered dict
RECURSIVE GroupItems(_, _)
GroupItems(items, grouped) ==
    IF items = <<>> THEN grouped
    ELSE LET Add(c) ==
                 IF \A i \in DOMAIN grouped : grouped[i].name # c.repo
                 THEN Append(grouped, [name |-> c.repo, items |-> <<c.item>>])
                 ELSE [grouped EXCEPT
                         ![CHOOSE i \in DOMAIN grouped : grouped[i].name = c.repo].items =
                             Append(@, c.item)]
         IN GroupItems(Tail(items), Add(CoerceItem(Head(items))))

\* ensure_repo(repo_name)["sections"].append({"title": cat, "items": gitems}) for
\* every group of one category, repos an insertion-ordered dict
RECURSIVE AppendSections(_, _, _)
AppendSections(grouped, title, repos) ==
    IF grouped = <<>> THEN repos
    ELSE LET Add(g, sec) ==
                 IF \A i \in DOMAIN repos : repos[i].name # g.name
                 THEN Append(repos, [name |-> g.name, sections |-> <<sec>>])
                 ELSE [repos EXCEPT
                         ![CHOOSE i \in DOMAIN repos : repos[i].name = g.name].sections =
                             Append(@, sec)]
         IN AppendSections(Tail(grouped), title,
                Add(Head(grouped),
                    JObj([title |-> JStr(title), items |-> JArr(Head(grouped).items)])))

RECURSIVE CoerceCategories(_, _, _)
CoerceCategories(doc, cats, repos) ==
    IF cats = <<>> THEN repos
    ELSE CoerceCategories(doc, Tail(cats),
             AppendSections(GroupItems(CatItems(doc, Head(cats).key).v, <<>>),
                            Head(cats).title, repos))

\* [raised |-> TRUE] for ValueError("not legacy format") and for an exception
\* raised while the items are read; otherwise the coerced document
_coerce_legacy(doc) ==
    IF doc.t # "obj" \/ DOMAIN doc.v \cap LegacyKeys = {} THEN [raised |-> TRUE]
    ELSE IF \E c \in DOMAIN CATEGORY_TITLES : CatRaises(doc, CATEGORY_TITLES[c].key)
    THEN [raised |-> TRUE]
    ELSE LET Coerced(repos) ==
                 [raised |-> FALSE,
                  doc |-> JObj([tldr |-> JArr(<<>>),
                                repos |-> JArr([i \in DOMAIN repos |->
                                     JObj([name |-> JStr(repos[i].name),
                                           sections |-> JArr(repos[i].sections)])]),
                                upgrade_notes |-> JArr(<<>>),
                                contributors |-> JArr(<<>>)])]
         IN Coerced(CoerceCategories(doc, CATEGORY_TITLES, <<>>))

----------------------------------------------------------------------------
(* The responses of the model: resp.choices[0].message.content *)

S_focus == <<"f", "o", "c", "u", "s">>
S_o_r == <<"o", "/", "r">>
S_b_api == <<"b", "/", "a", "p", "i">>
S_Add == <<"A", "d", "d">>
S_Fix == <<"F", "i", "x">>
S_url_o_r_5 == <<"h", "t", "t", "p", "s", ":", "/", "/", "h", "/", "o", "/", "r", "/", "p", "u", "l", "l", "/", "5">>
S_url_b_api_7 == <<"h", "t", "t", "p", "s", ":", "/", "/", "h", "/", "b", "/", "a", "p", "i", "/", "p", "u", "l", "l", "/", "7">>
S_url_short == <<"h", "t", "t", "p", "s", ":", "/", "/", "h", "/", "o", "/", "r">>

\* content is None, text that is no JSON, or the text of a JSON value
NoContent == [k |-> "none", j |-> JNull]
NotJson == [k |-> "text", j |-> JNull]
Json(j) == [k |-> "json", j |-> j]

Item(text, prs) == JObj([text |-> JStr(text), prs |-> JArr(prs)])
Section(title, items) == JObj([title |-> JStr(title), items |-> JArr(items)])
Repo(name, sections) == JObj([name |-> JStr(name), sections |-> JArr(sections)])

ReposWithItems ==
    JArr(<< Repo(S_o_r, << Section(S_Features, << Item(S_Add, <<JInt(5)>>) >>) >>),
            Repo(S_b_api, << Section(S_Fixes, << Item(S_Fix, <<JInt(7)>>) >>) >>) >>)

ReposNoItems == JArr(<< Repo(S_o_r, << Section(S_Features, <<>>) >>) >>)

LegacyItem(title, url) == JObj([title |-> title, url |-> JStr(url)])

\* The documents the model is taken to answer with: the target shape, the legacy
\* shape and the ways of falling short of either
Responses ==
    << NoContent,
       NotJson,
       \* a JSON value that is no object
       Json(JArr(<<>>)),
       \* the target shape, with items
       Json(JObj([tldr |-> JArr(<<JStr(S_focus)>>), repos |-> ReposWithItems,
                  upgrade_notes |-> JArr(<<>>), contributors |-> JArr(<<>>)])),
       \* required keys missing, items present
       Json(JObj([repos |-> ReposWithItems])),
       \* nothing at all
       Json(JObj(<<>>)),
       \* schema-valid, every items list empty
       Json(JObj([tldr |-> JArr(<<>>), repos |-> ReposNoItems,
                  upgrade_notes |-> JArr(<<>>), contributors |-> JArr(<<>>)])),
       \* an item without prs
       Json(JObj([repos |-> JArr(<< Repo(S_o_r, << Section(S_Features,
                      << JObj([text |-> JStr(S_Add)]) >>) >>) >>)])),
       \* an items list holding an empty object
       Json(JObj([repos |-> JArr(<< Repo(S_o_r, << Section(S_Features,
                      << JObj(<<>>) >>) >>) >>)])),
       \* repos is no array
       Json(JObj([repos |-> JStr(S_o_r)])),
       \* the legacy shape, with items (one url parses, one does not)
       Json(JObj([Features |-> JArr(<< LegacyItem(JStr(S_Add), S_url_o_r_5) >>),
                  Fixes |-> JArr(<< JObj([description |-> JStr(S_Fix),
                                          url |-> JStr(S_url_short)]) >>)])),
       \* the legacy shape, no items
       Json(JObj([Features |-> JArr(<<>>)])),
       \* the legacy shape, an item that is no object
       Json(JObj([Fixes |-> JArr(<< JStr(S_Fix) >>)])),
       \* the legacy shape, a title that is no string
       Json(JObj([Chore |-> JArr(<< LegacyItem(JInt(7), S_url_b_api_7) >>)])),
       \* the target shape with items, and legacy keys beside it
       Json(JObj([tldr |-> JArr(<<>>), repos |-> ReposWithItems,
                  upgrade_notes |-> JArr(<<>>), contributors |-> JArr(<<>>),
                  Features |-> JArr(<< LegacyItem(JStr(S_Fix), S_url_b_api_7) >>)])),
       \* the target shape without items, and legacy keys with items beside it
       Json(JObj([tldr |-> JArr(<<>>), repos |-> ReposNoItems,
                  upgrade_notes |-> JArr(<<>>), contributors |-> JArr(<<>>),
                  Fixes |-> JArr(<< LegacyItem(JStr(S_Fix), S_url_b_api_7) >>)])) >>

----------------------------------------------------------------------------
(* llm_consolidator.py: consolidate_openai *)

\* The temperatures main may pass, in tenths (LLMConfig.temperature defaults to 1)
Temperatures == {0, 2, 10}

SystemMessage == [role |-> "system", content |-> "SYSTEM_PROMPT"]
UserMessage == [role |-> "user", content |-> "user_msg"]
RepairMessage == [role |-> "user", content |-> "repair_prompt"]

\* json.loads(content): TypeError for None, JSONDecodeError for text that is no JSON
JsonLoads(c) ==
    CASE c.k = "none" -> [raised |-> TRUE, error |-> "TypeError", j |-> JNull]
      [] c.k = "text" -> [raised |-> TRUE, error |-> "JSONDecodeError", j |-> JNull]
      [] OTHER -> [raised |-> FALSE, error |-> "", j |-> c.j]

\* The coercion tier: _coerce_legacy under `try ... except Exception: pass`
CoercionTier(data) ==
    LET Checked(coerced) ==
            IF is_valid_release(coerced) /\ _has_minimal_content(coerced)
            THEN [ok |-> TRUE, doc |-> coerced]
            ELSE [ok |-> FALSE, doc |-> JNull]
        Tried(c) ==
            IF c.raised THEN [ok |-> FALSE, doc |-> JNull]
            ELSE Checked(_ensure_required_defaults(c.doc))
    IN Tried(_coerce_legacy(data))

\* A mutant of ValidateTiers: the coercion tier comes before the direct validation
ValidateTiersCoercionFirst(parsed) ==
    LET Validate(data) ==
            IF is_valid_release(data) /\ _has_minimal_content(data)
            THEN [ok |-> TRUE, via |-> "validated", doc |-> data, data |-> data]
            ELSE [ok |-> FALSE, via |-> "", doc |-> JNull, data |-> data]
        Coerce(data, c) ==
            IF c.ok THEN [ok |-> TRUE, via |-> "coerced", doc |-> c.doc, data |-> data]
            ELSE Validate(data)
        Tiers(data) == Coerce(data, CoercionTier(data))
    IN Tiers(_ensure_required_defaults(parsed))

\* What follows json.loads in an attempt and in the repair alike: default-filling,
\* direct validation, then the coercion tier. data is the default-filled document.
ValidateTiers(parsed) ==
    LET Coerce(data, c) ==
            IF c.ok THEN [ok |-> TRUE, via |-> "coerced", doc |-> c.doc, data |-> data]
            ELSE [ok |-> FALSE, via |-> "", doc |-> JNull, data |-> data]
        Validate(data) ==
            IF is_valid_release(data) /\ _has_minimal_content(data)
            THEN [ok |-> TRUE, via |-> "validated", doc |-> data, data |-> data]
            ELSE Coerce(data, CoercionTier(data))
    IN Validate(_ensure_required_defaults(parsed))

\* A mutant of MaxAttempts: one pass more
MaxAttemptsOneMore == 3 + 1

\* range(3)
MaxAttempts == 3

\* Python floats are IEEE 754 doubles. A positive double is here [p, bits]: the 53
\* bits of its significand, most significant first, and the exponent p of the first
\* bit, so that its value is bits[1] * 2^p + bits[2] * 2^(p - 1) + ...

\* a + b of two bit vectors of length n, from the last bit on with the carry: one
\* bit longer
AddFrom(a, b, n) ==
    LET Sum[i \in 0..n, carry \in 0..1] ==
            IF i = 0 THEN <<carry>>
            ELSE Sum[i - 1, (a[i] + b[i] + carry) \div 2] \o <<(a[i] + b[i] + carry) % 2>>
    IN Sum[n, 0]

PadTo(bits, n) == [i \in 1..(n - Len(bits)) |-> 0] \o bits

AddBits(a, b) ==
    LET Padded(n) == AddFrom(PadTo(a, n), PadTo(b, n), n)
    IN Padded(IF Len(a) > Len(b) THEN Len(a) ELSE Len(b))

RECURSIVE StripZeros(_)
StripZeros(bits) ==
    IF bits # <<>> /\ Head(bits) = 0 THEN StripZeros(Tail(bits)) ELSE bits

\* k * bits for an integer k >= 1, exactly
RECURSIVE TimesBits(_, _)
TimesBits(bits, k) == IF k = 1 THEN bits ELSE AddBits(TimesBits(bits, k - 1), bits)

\* The double nearest to the number whose bits (the first one 1) are given and whose
\* last bit has exponent q: round to nearest, ties to even
RoundToDouble(bits, q) ==
    LET Rounded(top, rest) ==
            LET up == /\ rest # <<>>
                      /\ rest[1] = 1
                      /\ (top[53] = 1 \/ \E i \in 2..Len(rest) : rest[i] = 1)
                Carried(m) ==
                    IF Len(m) > 53
                    THEN [p |-> q + Len(bits), bits |-> SubSeq(m, 1, 53)]
                    ELSE [p |-> q + Len(bits) - 1, bits |-> m]
            IN Carried(IF up THEN StripZeros(AddBits(top, <<1>>)) ELSE top)
    IN IF Len(bits) <= 53
       THEN [p |-> q + Len(bits) - 1, bits |-> bits \o [i \in 1..(53 - Len(bits)) |-> 0]]
       ELSE Rounded(SubSeq(bits, 1, 53), SubSeq(bits, 54, Len(bits)))

\* The exponent of the first bit of num / den
RECURSIVE Exponent(_, _)
Exponent(num, den) ==
    IF num < den THEN Exponent(2 * num, den) - 1
    ELSE IF num >= 2 * den THEN Exponent(num, 2 * den) + 1
    ELSE 0

\* The first `count` bits of r / den < 1 after the point, and a last bit that tells
\* whether anything is left
QuotientBits(r, den, count) ==
    LET Bits[rest \in 0..den, left \in 0..count] ==
            IF left = 0 THEN <<IF rest > 0 THEN 1 ELSE 0>>
            ELSE IF 2 * rest >= den THEN <<1>> \o Bits[2 * rest - den, left - 1]
            ELSE <<0>> \o Bits[2 * rest, left - 1]
    IN Bits[r, count]

\* The double a decimal literal num / den stands for: the nearest one
FloatLiteral(num, den) ==
    LET Scaled(p) ==
            LET From(a, b) == RoundToDouble(<<1>> \o QuotientBits(a - b, b, 53), p - 54)
            IN IF p >= 0 THEN From(num, den * 2^p) ELSE From(num * 2^(0 - p), den)
    IN Scaled(Exponent(num, den))

\* x * k for a double x and an int k >= 1: the exact product, rounded
FloatTimes(x, k) == RoundToDouble(StripZeros(TimesBits(x.bits, k)), x.p - 52)

\* A mutant of Backoff: the wait doubles from pass to pass
BackoffDoubling(n) == FloatTimes(FloatLiteral(12, 10), 2^n)

\* 1.2 * (attempt + 1), the argument of time.sleep
Backoff(n) == FloatTimes(FloatLiteral(12, 10), n + 1)

Running == [kind |-> "running", error |-> "", via |-> "", doc |-> JNull]
Returned(doc, via) == [kind |-> "returned", error |-> "", via |-> via, doc |-> doc]
Raised(error, doc) == [kind |-> "raised", error |-> error, via |-> "", doc |-> doc]

\* The state on entry, for every temperature and with or without OPENAI_API_KEY
CInit ==
    /\ cpc = "start"
    /\ attempt = 0
    /\ temperature \in Temperatures
    /\ apiKey \in BOOLEAN
    /\ content = NoContent
    /\ invocations = <<>>
    /\ sleeps = <<>>
    /\ log = <<>>
    /\ outcome = Running

\* os.getenv("OPENAI_API_KEY"), the client and the user message
Start ==
    /\ cpc = "start"
    /\ IF apiKey
       THEN cpc' = "attempt_call" /\ outcome' = outcome
       ELSE cpc' = "done" /\ outcome' = Raised("RuntimeError", JNull)
    /\ UNCHANGED <<attempt, temperature, apiKey, content, invocations, sleeps, log, pvars, mvars, hvars, rvars, fvars>>

\* The errors of the call itself: the transport fails (an openai.APIError), or the
\* response has no choices
CallErrors == {"APIError", "IndexError"}

\* A mutant of ModelCall: the call is made inside the try of the attempt, so that
\* its error is absorbed like a parse failure
ModelCallAbsorbed(tier, temp, messages, next) ==
    /\ invocations' = Append(invocations,
                             [tier |-> tier, n |-> attempt + 1, temperature |-> temp,
                              messages |-> messages])
    /\ \/ \E i \in DOMAIN Responses :
            /\ content' = Responses[i]
            /\ cpc' = next
            /\ outcome' = outcome
       \/ /\ content' = content
          /\ cpc' = IF tier = "attempt" THEN "attempt_sleep" ELSE "done"
          /\ outcome' = IF tier = "attempt" THEN outcome ELSE Raised("APIError", JNull)

\* client.chat.completions.create and resp.choices[0].message.content, outside any
\* try: the call raises (the transport fails, the response has no choices) or
\* gives a content
ModelCall(tier, temp, messages, next) ==
    /\ invocations' = Append(invocations,
                             [tier |-> tier, n |-> attempt + 1, temperature |-> temp,
                              messages |-> messages])
    /\ \/ \E i \in DOMAIN Responses :
            /\ content' = Responses[i]
            /\ cpc' = next
            /\ outcome' = outcome
       \/ \E e \in CallErrors :
            /\ content' = content
            /\ cpc' = "done"
            /\ outcome' = Raised(e, JNull)

\* One pass of `for attempt in range(3)` up to the content
AttemptCall ==
    /\ cpc = "attempt_call"
    /\ log' = Append(log, [event |-> "attempt", n |-> attempt + 1])
    /\ ModelCall("attempt", temperature, <<SystemMessage, UserMessage>>, "attempt_process")
    /\ UNCHANGED <<attempt, temperature, apiKey, sleeps, pvars, mvars, hvars, rvars, fvars>>

\* The log record and the exit of an attempt, from what the tiers gave
AttemptResult(r) ==
    IF r.ok THEN [event |-> r.via, ok |-> TRUE, doc |-> r.doc]
    ELSE [event |-> "invalid", ok |-> FALSE, doc |-> JNull]

\* The try block of an attempt: return the validated or the coerced document, or
\* log the failure (any exception counts as a parse failure) and go on to the sleep
AttemptProcess ==
    /\ cpc = "attempt_process"
    /\ LET Parsed(p) ==
               IF p.raised
               THEN [event |-> "parse_failed", ok |-> FALSE, doc |-> JNull]
               ELSE AttemptResult(ValidateTiers(p.j))
           Apply(r) ==
               /\ log' = Append(log, [event |-> r.event, n |-> attempt + 1])
               /\ cpc' = IF r.ok THEN "done" ELSE "attempt_sleep"
               /\ outcome' = IF r.ok THEN Returned(r.doc, r.event) ELSE outcome
       IN Apply(Parsed(JsonLoads(content)))
    /\ UNCHANGED <<attempt, temperature, apiKey, content, invocations, sleeps, pvars, mvars, hvars, rvars, fvars>>

\* time.sleep at the end of a failed pass, then the next pass or, after the third,
\* the repair
AttemptSleep ==
    /\ cpc = "attempt_sleep"
    /\ sleeps' = Append(sleeps, Backoff(attempt))
    /\ attempt' = attempt + 1
    /\ cpc' = IF attempt + 1 < MaxAttempts THEN "attempt_call" ELSE "repair_call"
    /\ UNCHANGED <<temperature, apiKey, content, invocations, log, outcome, pvars, mvars, hvars, rvars, fvars>>

\* The repair call: temperature 0.0, the user message and the repair prompt
RepairCall ==
    /\ cpc = "repair_call"
    /\ log' = Append(log, [event |-> "repair", n |-> attempt + 1])
    /\ ModelCall("repair", 0, <<SystemMessage, UserMessage, RepairMessage>>, "repair_process")
    /\ UNCHANGED <<attempt, temperature, apiKey, sleeps, pvars, mvars, hvars, rvars, fvars>>

\* A mutant of RepairFailure: assert_valid_release is left out
RepairFailureUnasserted(data) == Raised("ValueError", data)

\* assert_valid_release(data), then the ValueError of a valid document without items
RepairFailure(data) ==
    IF ~is_valid_release(data) THEN Raised("ValidationError", data)
    ELSE Raised("ValueError", data)

\* The exit of the repair, from what the tiers gave
RepairResult(r) == IF r.ok THEN Returned(r.doc, r.via) ELSE RepairFailure(r.data)

\* After the repair call: json.loads is under no try here
RepairProcess ==
    /\ cpc = "repair_process"
    /\ LET Parsed(p) ==
               IF p.raised THEN Raised(p.error, JNull) ELSE RepairResult(ValidateTiers(p.j))
           Apply(o) ==
               /\ log' = IF o.kind = "returned"
                         THEN Append(log, [event |-> "repair_" \o o.via, n |-> attempt + 1])
                         ELSE log
               /\ outcome' = o
       IN Apply(Parsed(JsonLoads(content)))
    /\ cpc' = "done"
    /\ UNCHANGED <<attempt, temperature, apiKey, content, invocations, sleeps, pvars, mvars, hvars, rvars, fvars>>

----------------------------------------------------------------------------
(* preclass.py: the classifier *)

S_feat == <<"f", "e", "a", "t">>
S_fix == <<"f", "i", "x">>
S_perf == <<"p", "e", "r", "f">>
S_docs == <<"d", "o", "c", "s">>
S_chore == <<"c", "h", "o", "r", "e">>
S_refactor == <<"r", "e", "f", "a", "c", "t", "o", "r">>
S_feature == <<"f", "e", "a", "t", "u", "r", "e">>
S_enhancement == <<"e", "n", "h", "a", "n", "c", "e", "m", "e", "n", "t">>
S_type_feat == <<"t", "y", "p", "e", ":", "f", "e", "a", "t">>
S_bug == <<"b", "u", "g">>
S_type_bug == <<"t", "y", "p", "e", ":", "b", "u", "g">>
S_performance == <<"p", "e", "r", "f", "o", "r", "m", "a", "n", "c", "e">>
S_documentation == <<"d", "o", "c", "u", "m", "e", "n", "t", "a", "t", "i", "o", "n">>
S_breaking == <<"b", "r", "e", "a", "k", "i", "n", "g">>
S_breaking_dash_change == <<"b", "r", "e", "a", "k", "i", "n", "g", "-", "c", "h", "a", "n", "g", "e">>
S_breaking_change == <<"b", "r", "e", "a", "k", "i", "n", "g", " ", "c", "h", "a", "n", "g", "e">>
S_area_prefix == <<"a", "r", "e", "a", "/">>

\* CATEGORIES
CATEGORIES == {S_Features, S_Fixes, S_Chore}

UpperCase == <<"A", "B", "C", "D", "E", "F", "G", "H", "I", "J", "K", "L", "M",
               "N", "O", "P", "Q", "R", "S", "T", "U", "V", "W", "X", "Y", "Z">>
LowerCase == <<"a", "b", "c", "d", "e", "f", "g", "h", "i", "j", "k", "l", "m",
               "n", "o", "p", "q", "r", "s", "t", "u", "v", "w", "x", "y", "z">>

LowerChar(c) ==
    IF \E i \in DOMAIN UpperCase : UpperCase[i] = c
    THEN LowerCase[CHOOSE i \in DOMAIN UpperCase : UpperCase[i] = c]
    ELSE c

\* s.lower()
Lower(s) == [i \in DOMAIN s |-> LowerChar(s[i])]

\* What str.strip() removes
Whitespace == {" ", "\t", "\n", "\r"}

\* The characters of a string
Chars(s) == {s[i] : i \in DOMAIN s}

\* What follows the kind in the pattern: (!:|:|\(.*\)(!:|:)), `.` any character
\* but a line break
MatchesMarker(rest) ==
    \/ StartsWith(rest, <<"!", ":">>)
    \/ StartsWith(rest, <<":">>)
    \/ /\ StartsWith(rest, <<"(">>)
       /\ \E j \in 2..Len(rest) :
             /\ rest[j] = ")"
             /\ \A i \in 2..(j - 1) : rest[i] # "\n"
             /\ \/ StartsWith(Drop(rest, j), <<"!", ":">>)
                \/ StartsWith(Drop(rest, j), <<":">>)

\* The kinds of the pattern, in the order of its alternatives
ConventionalKinds == <<S_feat, S_fix, S_perf, S_docs, S_chore, S_refactor>>

\* A mutant of MatchesKind: re.IGNORECASE is left out
MatchesKindCaseSensitive(t, k) ==
    /\ Len(ConventionalKinds[k]) <= Len(t)
    /\ Take(t, Len(ConventionalKinds[k])) = ConventionalKinds[k]
    /\ MatchesMarker(Drop(t, Len(ConventionalKinds[k])))

\* re.match(r"^(feat|fix|perf|docs|chore|refactor)(!:|:|\(.*\)(!:|:))", t,
\* re.IGNORECASE): whether t matches with the k-th kind
MatchesKind(t, k) ==
    /\ Len(ConventionalKinds[k]) <= Len(t)
    /\ Lower(Take(t, Len(ConventionalKinds[k]))) = ConventionalKinds[k]
    /\ MatchesMarker(Drop(t, Len(ConventionalKinds[k])))

\* m.group(1).lower() of the match on title.strip(), or None (here <<>>, which is
\* what `or ""` makes of it)
detect_conventional_prefix(title) ==
    LET Kind(t) ==
            IF \E k \in DOMAIN ConventionalKinds : MatchesKind(t, k)
            THEN ConventionalKinds[CHOOSE k \in DOMAIN ConventionalKinds :
                     /\ MatchesKind(t, k)
                     /\ \A j \in 1..(k - 1) : ~MatchesKind(t, j)]
            ELSE <<>>
    IN Kind(Strip(title, Whitespace))

\* The labels compared: set([l.lower() for l in pr.labels or []])
LabelSet(rec) == {Lower(l) : l \in rec.labels}

\* A mutant of BreakingMarker: it looks for "!:" in the first token
BreakingMarkerColon(title) ==
    title # <<>> /\ Contains(UpTo(title, {" "}), <<"!", ":">>)

\* "!" in title.split(" ")[0] if title else False
BreakingMarker(title) ==
    title # <<>> /\ "!" \in Chars(UpTo(title, {" "}))

\* The breaking detector
Breaking(rec, labels) ==
    \/ S_breaking \in labels
    \/ Contains(Lower(rec.body_excerpt), S_breaking_change)
    \/ S_breaking_dash_change \in labels
    \/ BreakingMarker(rec.title)

\* The characters in the order iteration is modelled on
Alphabet == LowerCase \o UpperCase \o <<"0", "1", "2", "3", "4", "5", "6", "7", "8", "9",
                                       " ", "!", "(", ")", "-", ".", "/", ":", "#", "?">>

Code(c) == CHOOSE i \in DOMAIN Alphabet : Alphabet[i] = c

\* a < b, character by character
RECURSIVE LexLess(_, _)
LexLess(a, b) ==
    IF b = <<>> THEN FALSE
    ELSE IF a = <<>> THEN TRUE
    ELSE IF Head(a) # Head(b) THEN Code(Head(a)) < Code(Head(b))
    ELSE LexLess(Tail(a), Tail(b))

\* Whether a set of str yields a before b when it is iterated. The order follows
\* the hashes of the strings, which the interpreter salts with a seed drawn when the
\* process starts: two of the orders different seeds give are modelled.
IteratedBefore(a, b, seed) == IF seed = 0 THEN LexLess(a, b) ELSE LexLess(b, a)

\* next((l for l in labels if l.startswith("area/")), None): None is <<>>, a label
\* l is <<l>>
AreaLabel(labels, seed) ==
    LET First(areas) ==
            IF areas = {} THEN <<>>
            ELSE <<CHOOSE a \in areas : \A b \in areas \ {a} : IteratedBefore(a, b, seed)>>
    IN First({l \in labels : StartsWith(l, S_area_prefix)})

\* A mutant of LabelCategory: the documentation labels are looked at before the
\* performance labels
LabelCategoryDocsFirst(labels, breaking) ==
    IF breaking THEN S_Features
    ELSE IF labels \cap {S_feature, S_enhancement, S_type_feat, S_feat} # {} THEN S_Features
    ELSE IF labels \cap {S_bug, S_fix, S_type_bug} # {} THEN S_Fixes
    ELSE IF labels \cap {S_docs, S_documentation} # {} THEN S_Chore
    ELSE IF labels \cap {S_perf, S_performance} # {} THEN S_Fixes
    ELSE IF labels \cap {S_refactor, S_chore} # {} THEN S_Chore
    ELSE S_Chore

\* The primary, label-based mapping
LabelCategory(labels, breaking) ==
    IF breaking THEN S_Features
    ELSE IF labels \cap {S_feature, S_enhancement, S_type_feat, S_feat} # {} THEN S_Features
    ELSE IF labels \cap {S_bug, S_fix, S_type_bug} # {} THEN S_Fixes
    ELSE IF labels \cap {S_perf, S_performance} # {} THEN S_Fixes
    ELSE IF labels \cap {S_docs, S_documentation} # {} THEN S_Chore
    ELSE IF labels \cap {S_refactor, S_chore} # {} THEN S_Chore
    ELSE S_Chore

\* The conventional commit overrides
ConventionalOverride(conventional, cat) ==
    CASE conventional = S_feat -> S_Features
      [] conventional = S_fix -> S_Fixes
      [] conventional = S_perf -> S_Fixes
      [] conventional = S_docs -> S_Chore
      [] conventional \in {S_refactor, S_chore} -> S_Chore
      [] OTHER -> cat

\* classify(pr) in a process whose hash seed is seed
classify(rec, seed) ==
    LET Classified(labels, breaking) ==
            [category |-> ConventionalOverride(detect_conventional_prefix(rec.title),
                                               LabelCategory(labels, breaking)),
             area |-> AreaLabel(labels, seed),
             is_breaking |-> breaking]
        WithLabels(labels) == Classified(labels, Breaking(rec, labels))
    IN WithLabels(LabelSet(rec))

----------------------------------------------------------------------------
(* The change records classify is applied to *)

S_area_api == <<"a", "r", "e", "a", "/", "a", "p", "i">>
S_area_ui == <<"a", "r", "e", "a", "/", "u", "i">>
S_Perf == <<"P", "e", "r", "f">>
S_Fix_upper == <<"F", "i", "x">>
S_Breaking_Change_note == <<"A", " ", "B", "r", "e", "a", "k", "i", "n", "g", " ", "C", "h", "a", "n", "g", "e">>
S_scope == <<"(", "x", ")">>
S_tail_bang == <<" ", "x", "!">>

\* Titles: an optional leading blank, a kind or no word, an optional scope,
\* "!" and ":", and the rest of the title
Titles ==
    {l \o w \o sc \o b \o c \o t :
        l \in {<<>>, <<" ">>},
        w \in {<<>>, S_feat, S_fix, S_perf, S_docs, S_chore, S_refactor, S_Fix_upper},
        sc \in {<<>>, S_scope},
        b \in {<<>>, <<"!">>},
        c \in {<<>>, <<":">>},
        t \in {<<>>, S_tail_bang}}

LabelUniverse ==
    {S_feature, S_bug, S_performance, S_Perf, S_docs, S_breaking, S_area_api, S_area_ui}

\* The most labels on a record
MaxLabels == 2

\* The most calls of classify on a record
MaxCalls == 2

\* The hash seeds a process may start with: one for each order modelled
HashSeeds == {0, 1}

Excerpts == {<<>>, S_Breaking_Change_note}

NoRecord == [title |-> <<>>, labels |-> {}, body_excerpt |-> <<>>]

Records ==
    {[title |-> t, labels |-> ls, body_excerpt |-> e] :
        t \in Titles,
        ls \in {x \in SUBSET LabelUniverse : Cardinality(x) <= MaxLabels},
        e \in Excerpts}

ClassifyIdle == pr = NoRecord /\ hashSeed = 0 /\ results = <<>>

\* A fetched record, in a process that has just started
ClassifyInit ==
    /\ pr \in Records
    /\ hashSeed \in HashSeeds
    /\ results = <<>>

\* classified = [classify(p) for p in prs], for one p
Classify ==
    /\ Len(results) < MaxCalls
    /\ results' = Append(results, classify(pr, hashSeed))
    /\ UNCHANGED <<pr, hashSeed, cvars, mvars, hvars, rvars, fvars>>

\* The program is run again on the same record: the new process has a hash seed of
\* its own
NewProcess ==
    /\ Len(results) < MaxCalls
    /\ \E s \in HashSeeds : s # hashSeed /\ hashSeed' = s
    /\ UNCHANGED <<pr, results, cvars, mvars, hvars, rvars, fvars>>

----------------------------------------------------------------------------
(* renderer.py *)

S_Offchain_Release == <<"O", "f", "f", "c", "h", "a", "i", "n", " ", "R", "e", "l", "e", "a", "s", "e">>
S_Focus_areas == <<"F", "o", "c", "u", "s", " ", "a", "r", "e", "a", "s", " ", "f", "o", "r", " ", "t", "h", "e", " ", "w", "e", "e", "k", ":">>
S_Upgrade_notes == <<"U", "p", "g", "r", "a", "d", "e", " ", "n", "o", "t", "e", "s", ":">>
S_Syrup == <<"S", "y", "r", "u", "p">>
S_hq == <<"h", "q">>
S_API == <<"A", "P", "I">>
S_Webapp == <<"W", "e", "b", "a", "p", "p">>
S_slash_ya_webapp == <<"/", "y", "a", "-", "w", "e", "b", "a", "p", "p">>
S_syrup == <<"s", "y", "r", "u", "p">>
S_slash_hq == <<"/", "h", "q">>
S_api == <<"a", "p", "i">>
S_sparkles == <<":", "s", "p", "a", "r", "k", "l", "e", "s", ":">>
S_bug_emoji == <<":", "b", "u", "g", ":">>
S_hammer_and_wrench == <<":", "h", "a", "m", "m", "e", "r", "_", "a", "n", "d", "_", "w", "r", "e", "n", "c", "h", ":">>
S_PR_open == <<"[", "P", "R", " ", "#">>
S_PR_url == <<"]", "(", "h", "t", "t", "p", "s", ":", "/", "/", "g", "i", "t", "h", "u", "b", ".", "c", "o", "m", "/">>
S_pull == <<"/", "p", "u", "l", "l", "/">>
S_None == <<"N", "o", "n", "e">>
S_True == <<"T", "r", "u", "e">>
S_False == <<"F", "a", "l", "s", "e">>
S_Release == <<"R", "e", "l", "e", "a", "s", "e">>
S_date == <<"2", "0", "2", "6", "-", "0", "1", "-", "0", "5">>

\* name -> product bucket, the first rule that matches
_product_for_repo(full_name) ==
    LET Product(name) ==
            IF EndsWith(name, S_slash_ya_webapp) \/ Contains(name, S_syrup) THEN S_Syrup
            ELSE IF Contains(name, S_slash_hq) \/ EndsWith(name, S_slash_hq) THEN S_hq
            ELSE IF Contains(name, S_api) THEN S_API
            ELSE IF EndsWith(name, S_slash_ya_webapp) THEN S_Webapp
            ELSE full_name
    IN Product(Lower(full_name))

_emoji_for_category(cat) ==
    LET Emoji(c) ==
            IF StartsWith(c, S_feature) THEN S_sparkles
            ELSE IF StartsWith(c, S_fix) THEN S_bug_emoji
            ELSE IF StartsWith(c, S_chore) THEN S_hammer_and_wrench
            ELSE <<>>
    IN Emoji(Lower(cat))

DigitChars == <<"0", "1", "2", "3", "4", "5", "6", "7", "8", "9">>

\* str(n), n >= 0
RECURSIVE NatToStr(_)
NatToStr(n) ==
    IF n < 10 THEN <<DigitChars[n + 1]>>
    ELSE NatToStr(n \div 10) \o <<DigitChars[(n % 10) + 1]>>

\* f"{x}" for a string, an integer, None and a bool
Format(j) ==
    CASE j.t = "str" -> j.v
      [] j.t = "int" -> IF j.v < 0 THEN <<"-">> \o NatToStr(0 - j.v) ELSE NatToStr(j.v)
      [] j.t = "null" -> S_None
      [] j.t = "bool" -> IF j.v THEN S_True ELSE S_False

\* sep.join(strs)
RECURSIVE Join(_, _)
Join(strs, sep) ==
    IF strs = <<>> THEN <<>>
    ELSE IF Len(strs) = 1 THEN Head(strs)
    ELSE Head(strs) \o sep \o Join(Tail(strs), sep)

\* The concatenation of lists
RECURSIVE ConcatAll(_)
ConcatAll(lists) == IF lists = <<>> THEN <<>> ELSE Head(lists) \o ConcatAll(Tail(lists))

\* The links of an item
PrLinks(repo_name, prs) ==
    Join([i \in DOMAIN prs |->
              S_PR_open \o Format(prs[i]) \o S_PR_url \o repo_name \o S_pull
                  \o Format(prs[i]) \o <<")">>],
         <<" ">>)

\* The bullet of an item
Bullet(repo_name, emoji, item) ==
    LET Linked(bullet, pr_links) ==
            IF pr_links # <<>> THEN bullet \o <<" ">> \o pr_links ELSE bullet
    IN Linked(Strip(<<"-", " ">> \o emoji \o <<" ">>
                        \o Format(PyOr(Get(item, "text"), JStr(<<>>))), Whitespace),
              PrLinks(repo_name, PyOr(Get(item, "prs"), JArr(<<>>)).v))

\* The bullets of a section, each with the product it is appended to
SectionBullets(repo_name, sec) ==
    LET Bullets(product, emoji, items) ==
            [i \in DOMAIN items |->
                [product |-> product, bullet |-> Bullet(repo_name, emoji, items[i])]]
    IN Bullets(_product_for_repo(repo_name),
               _emoji_for_category(Strip(PyOr(Get(sec, "title"), JStr(<<>>)).v, Whitespace)),
               GetOr(sec, "items", JArr(<<>>)).v)

\* A mutant of RepoBullets: only the first section of a repository is scanned
RepoBulletsFirstSection(repo) ==
    LET Sections(repo_name, secs) ==
            IF secs = <<>> THEN <<>> ELSE SectionBullets(repo_name, Head(secs))
    IN Sections(PyOr(Get(repo, "name"), JStr(S_unknown_unknown)).v,
                GetOr(repo, "sections", JArr(<<>>)).v)

\* The bullets of a repository
RepoBullets(repo) ==
    LET Sections(repo_name, secs) ==
            ConcatAll([i \in DOMAIN secs |-> SectionBullets(repo_name, secs[i])])
    IN Sections(PyOr(Get(repo, "name"), JStr(S_unknown_unknown)).v,
                GetOr(repo, "sections", JArr(<<>>)).v)

\* The bullets in the order the repos, sections and items are scanned
DocBullets(doc) ==
    LET Repos(repos) == ConcatAll([i \in DOMAIN repos |-> RepoBullets(repos[i])])
    IN Repos(GetOr(doc, "repos", JArr(<<>>)).v)

\* A mutant of ProductKeys: the product seen last comes first
RECURSIVE ProductKeysLastFirst(_, _)
ProductKeysLastFirst(bullets, seen) ==
    IF bullets = <<>> THEN seen
    ELSE IF \E i \in DOMAIN seen : seen[i] = Head(bullets).product
         THEN ProductKeysLastFirst(Tail(bullets), seen)
         ELSE ProductKeysLastFirst(Tail(bullets), <<Head(bullets).product>> \o seen)

\* The keys of `products`, a dict: in the order of their first insertion
RECURSIVE ProductKeys(_, _)
ProductKeys(bullets, seen) ==
    IF bullets = <<>> THEN seen
    ELSE IF \E i \in DOMAIN seen : seen[i] = Head(bullets).product
         THEN ProductKeys(Tail(bullets), seen)
         ELSE ProductKeys(Tail(bullets), Append(seen, Head(bullets).product))

\* The lines of a product: its heading, its bullets and a blank line
ProductLines(product, bullets) ==
    LET Lines(items) ==
            IF items = <<>> THEN <<>>
            ELSE <<<<"*", "*">> \o product \o <<"*", "*">>>>
                     \o [i \in DOMAIN items |-> items[i].bullet] \o <<<<>>>>
        OfProduct(b) == b.product = product
    IN Lines(SelectSeq(bullets, OfProduct))

\* A heading and one "- " line for each entry, then a blank line; nothing for no
\* entry
ListLines(heading, entries) ==
    IF entries = <<>> THEN <<>>
    ELSE <<heading>> \o [i \in DOMAIN entries |-> <<"-", " ">> \o Format(entries[i])]
             \o <<<<>>>>

\* A mutant of MaxFocus: tldr[:11]
MaxFocusOneMore == 10 + 1

\* tldr[:10]
MaxFocus == 10

\* `lines` at the end of render_md, today being datetime.utcnow() as YYYY-MM-DD
RenderLines(doc, today) ==
    LET Products(bullets, keys) ==
            ConcatAll([i \in DOMAIN keys |-> ProductLines(keys[i], bullets)])
        Grouped(bullets) == Products(bullets, ProductKeys(bullets, <<>>))
        Tldr(tldr) ==
            ListLines(S_Focus_areas, IF Len(tldr) > MaxFocus THEN Take(tldr, MaxFocus) ELSE tldr)
    IN <<<<"#", " ">> \o Format(PyOr(Get(doc, "title"), JStr(S_Offchain_Release)))
             \o <<" ", "(">> \o today \o <<")">>,
         <<>>>>
         \o Tldr(PyOr(Get(doc, "tldr"), JArr(<<>>)).v)
         \o Grouped(DocBullets(doc))
         \o ListLines(S_Upgrade_notes, PyOr(Get(doc, "upgrade_notes"), JArr(<<>>)).v)

render_md(doc, today) == Join(RenderLines(doc, today), <<"\n">>)

----------------------------------------------------------------------------
(* cli.py: main *)

S_feat_Add == <<"f", "e", "a", "t", ":", " ", "A", "d", "d">>
S_fix_Fix == <<"f", "i", "x", ":", " ", "F", "i", "x">>
S_wip == <<"w", "i", "p">>
S_v2 == <<"v", "2">>

\* The parameters of consolidate_openai
ConsolidateParams == <<"snapshots", "since_ref", "until_ref", "model", "temperature">>

\* The arguments main calls it with: five positional ones and two keywords
MainCallPositional == 5
MainCallKeywords == {"api_key", "use_override"}

\* Whether a call with npos positional arguments and the keywords kw binds to
\* params, none of which has a default: else the call raises TypeError
Binds(params, npos, kw) ==
    /\ npos <= Len(params)
    /\ \A k \in kw : \E i \in (npos + 1)..Len(params) : params[i] = k
    /\ \A i \in (npos + 1)..Len(params) : params[i] \in kw

\* The body of consolidate_openai against an endpoint that answers every call of a
\* run alike: with an error of the call, or with a content. A content the tiers
\* accept is returned from the first pass; any other fails every pass and the
\* repair.
ConsolidateAgainst(endpoint) ==
    LET Repair(p) ==
            IF p.raised THEN Raised(p.error, JNull) ELSE RepairResult(ValidateTiers(p.j))
        Tiers(p, r) ==
            IF r.ok THEN [calls |-> 1, outcome |-> Returned(r.doc, r.via)]
            ELSE [calls |-> MaxAttempts + 1, outcome |-> Repair(p)]
        Parsed(p) ==
            IF p.raised THEN [calls |-> MaxAttempts + 1, outcome |-> Repair(p)]
            ELSE Tiers(p, ValidateTiers(p.j))
    IN IF endpoint.error # ""
       THEN [calls |-> 1, outcome |-> Raised(endpoint.error, JNull)]
       ELSE Parsed(JsonLoads(endpoint.content))

\* The call of consolidate_openai in main: cfg.llm.get_api_key() is evaluated with
\* the arguments, then the arguments are bound, then the body runs
ConsolidateCall(r) ==
    IF ~r.api_key THEN [calls |-> 0, outcome |-> Raised("RuntimeError", JNull)]
    ELSE IF ~Binds(ConsolidateParams, MainCallPositional, MainCallKeywords)
    THEN [calls |-> 0, outcome |-> Raised("TypeError", JNull)]
    ELSE ConsolidateAgainst(r.endpoint)

\* {**llm_out, "title": cfg.release.title}
WithTitle(doc, title) ==
    JObj([k \in DOMAIN doc.v \cup {"title"} |-> IF k = "title" THEN JStr(title) ELSE doc.v[k]])

\* A mutant of AfterConsolidate: main catches what the call raises and goes on
\* with an empty document
AfterConsolidateCaught(o, title) ==
    IF o.kind = "raised"
    THEN [exit |-> "0", render |-> TRUE, doc |-> WithTitle(JObj(<<>>), title)]
    ELSE [exit |-> "0", render |-> TRUE, doc |-> WithTitle(o.doc, title)]

\* What main does with the outcome of the call: an exception ends main, a returned
\* document is given the title and rendered
AfterConsolidate(o, title) ==
    IF o.kind = "raised"
    THEN [exit |-> o.error, render |-> FALSE, doc |-> JNull]
    ELSE [exit |-> "0", render |-> TRUE, doc |-> WithTitle(o.doc, title)]

\* summarize_for_llm, for one classified record
Summary(p, c) ==
    [number |-> p.number, title |-> p.title, labels |-> p.labels, author |-> p.author,
     url |-> p.url, body_excerpt |-> p.body_excerpt,
     category |-> c.category, area |-> c.area, is_breaking |-> c.is_breaking]

\* The snapshot of a repository: its records, classified and summarized
Snapshot(repo, prs, seed) ==
    [repo |-> repo.full_name,
     prs |-> [i \in DOMAIN prs |->
                 Summary(prs[i], classify([title |-> prs[i].title, labels |-> prs[i].labels,
                                           body_excerpt |-> prs[i].body_excerpt], seed))]]

\* The repositories of a run: with or without an until_ref of their own
RepoSpecs ==
    {[full_name |-> n, until_ref |-> u] : n \in {S_o_r, S_b_api}, u \in {<<>>, S_v2}}

\* The most repositories of a run
MaxRepos == 2

RepoLists == UNION {[1..n -> RepoSpecs] : n \in 0..MaxRepos}

FetchedPR(number, title, labels) ==
    [number |-> number, title |-> title, labels |-> labels, author |-> <<"a">>,
     url |-> S_url_short, body_excerpt |-> <<>>]

\* What fetch_prs gives for a repository, when it does not raise
FetchedLists ==
    {<<>>,
     <<FetchedPR(5, S_feat_Add, {}), FetchedPR(7, S_fix_Fix, {})>>,
     <<FetchedPR(7, S_wip, {S_bug, S_area_api, S_area_ui})>>}

\* A document with one repository, one section for each category and one item in
\* each
TwoSections(name) ==
    JObj([tldr |-> JArr(<<JStr(S_focus)>>),
          repos |-> JArr(<<Repo(name, <<Section(S_Features, <<Item(S_Add, <<JInt(5)>>)>>),
                                        Section(S_Fixes, <<Item(S_Fix, <<JInt(7)>>)>>)>>)>>),
          upgrade_notes |-> JArr(<<>>)])

\* What the endpoint of the model answers in a run
Endpoints ==
    {[error |-> e, content |-> NoContent] : e \in CallErrors}
        \cup {[error |-> "", content |-> c] :
                 c \in {NotJson, Json(TwoSections(S_o_r)), Json(TwoSections(S_b_api))}}

MainIdle ==
    /\ mpc = "idle"
    /\ run = [llm_only |-> FALSE]
    /\ snapshots = <<>>
    /\ modelCalls = 0
    /\ llm_out = Running
    /\ rendered = FALSE
    /\ outfile = [opened |-> FALSE, text |-> <<>>]
    /\ exitStatus = "running"

\* The start of main, for the arguments, the configuration, the environment and
\* the endpoint of a run
MainInit ==
    /\ mpc = "start"
    /\ run \in [llm_only : BOOLEAN, repos : RepoLists, until_ref : {<<>>, S_v2},
                github_token : BOOLEAN, api_key : BOOLEAN, hash_seed : HashSeeds,
                title : {S_Release}, today : {S_date}, endpoint : Endpoints]
    /\ snapshots = <<>>
    /\ modelCalls = 0
    /\ llm_out = Running
    /\ rendered = FALSE
    /\ outfile = [opened |-> FALSE, text |-> <<>>]
    /\ exitStatus = "running"

\* Whether no repository has an until_ref (a since_date is never given here)
MissingAny(repos) == \A i \in DOMAIN repos : repos[i].until_ref = <<>>

\* main up to the fetchers: the repository list, the boundary check, the tokens
MainStart ==
    /\ mpc = "start"
    /\ IF run.llm_only THEN mpc' = "consolidate" /\ exitStatus' = exitStatus
       ELSE IF run.repos = <<>> THEN mpc' = "done" /\ exitStatus' = "2"
       ELSE IF MissingAny(run.repos) /\ run.until_ref = <<>>
       THEN mpc' = "done" /\ exitStatus' = "2"
       ELSE IF ~run.github_token THEN mpc' = "done" /\ exitStatus' = "RuntimeError"
       ELSE mpc' = "fetch" /\ exitStatus' = exitStatus
    /\ UNCHANGED <<run, snapshots, modelCalls, llm_out, rendered, outfile, cvars, pvars, hvars, rvars, fvars>>

\* One pass of `for r in repos`: fetch_prs raises, or its records are classified
\* and the snapshot is appended
MainFetchRepo ==
    /\ mpc = "fetch"
    /\ \/ /\ mpc' = "done"
          /\ exitStatus' = "HTTPError"
          /\ snapshots' = snapshots
       \/ \E prs \in FetchedLists :
            /\ snapshots' = Append(snapshots,
                                   Snapshot(run.repos[Len(snapshots) + 1], prs, run.hash_seed))
            /\ mpc' = IF Len(snapshots) + 1 < Len(run.repos) THEN "fetch" ELSE "consolidate"
            /\ exitStatus' = exitStatus
    /\ UNCHANGED <<run, modelCalls, llm_out, rendered, outfile, cvars, pvars, hvars, rvars, fvars>>

\* The rest of main: the call of consolidate_openai, then the title, render_md
\* and the write of the output file
MainConsolidate ==
    /\ mpc = "consolidate"
    /\ LET Finish(call, after) ==
               /\ modelCalls' = call.calls
               /\ llm_out' = call.outcome
               /\ rendered' = after.render
               /\ outfile' = IF after.render
                             THEN [opened |-> TRUE, text |-> render_md(after.doc, run.today)]
                             ELSE outfile
               /\ exitStatus' = after.exit
           Called(call) == Finish(call, AfterConsolidate(call.outcome, run.title))
       IN Called(ConsolidateCall(run))
    /\ mpc' = "done"
    /\ UNCHANGED <<run, snapshots, cvars, pvars, hvars, rvars, fvars>>

----------------------------------------------------------------------------
(* The documents the helpers of the consolidator are applied to *)

S_url_issues == <<"h", "t", "t", "p", "s", ":", "/", "/", "h", "/", "o", "/", "r", "/", "i", "s", "s", "u", "e", "s", "/", "5">>
S_url_not_a_number == <<"h", "t", "t", "p", "s", ":", "/", "/", "h", "/", "o", "/", "r", "/", "p", "u", "l", "l", "/", "x">>
S_url_zero == <<"h", "t", "t", "p", "s", ":", "/", "/", "h", "/", "o", "/", "r", "/", "p", "u", "l", "l", "/", "0">>
S_url_no_scheme == <<"h", "/", "o", "/", "r", "/", "p", "u", "l", "l", "/", "5">>
S_url_files == <<"h", "t", "t", "p", "s", ":", "/", "/", "h", "/", "o", "/", "r", "/", "p", "u", "l", "l", "/", "5", "/", "f", "i", "l", "e", "s">>

\* The required keys, and for each the values a document may have under it: an
\* empty list, a list the schema takes, a value it does not take
RequiredKeys == <<"tldr", "repos", "upgrade_notes", "contributors">>

RequiredValues ==
    << <<JArr(<<>>), JArr(<<JStr(S_focus)>>), JArr(<<JInt(5)>>)>>,
       <<JArr(<<>>), ReposWithItems, JArr(<<JObj(<<>>)>>)>>,
       <<JArr(<<>>), JArr(<<JStr(S_focus)>>), JNull>>,
       <<JArr(<<>>), JArr(<<JStr(S_o_r)>>), JStr(S_o_r)>> >>

\* The document with, for each required key i, no value (f[i] = 0) or the f[i]-th
\* value
TargetDoc(f) ==
    JObj([k \in {RequiredKeys[i] : i \in {j \in DOMAIN RequiredKeys : f[j] # 0}} |->
            LET Value(i) == RequiredValues[i][f[i]]
            IN Value(CHOOSE i \in DOMAIN RequiredKeys : RequiredKeys[i] = k)])

\* Parsed JSON that is no object
NonObjects == <<JNull, JArr(<<>>), JStr(S_focus), JInt(5)>>

\* The items of the legacy shape: urls that give a repository and a number, urls
\* that do not, titles and descriptions present and absent, and items and fields
\* of the wrong type
LegacyItems ==
    << LegacyItem(JStr(S_Add), S_url_o_r_5),
       LegacyItem(JStr(S_Fix), S_url_b_api_7),
       JObj([description |-> JStr(S_Fix), url |-> JStr(S_url_issues)]),
       JObj([title |-> JStr(S_Add)]),
       JObj([title |-> JStr(<<>>), description |-> JStr(S_Add), url |-> JStr(S_url_short)]),
       JObj([url |-> JStr(S_url_not_a_number)]),
       LegacyItem(JStr(S_Add), S_url_zero),
       LegacyItem(JStr(S_Fix), S_url_no_scheme),
       LegacyItem(JStr(S_Add), S_url_files),
       JObj([title |-> JStr(S_Fix), url |-> JInt(5)]),
       LegacyItem(JInt(5), S_url_o_r_5),
       JInt(5) >>

\* The most items under a legacy key
MaxItems == 2

\* What a document may have under Fixes, beside no value (0)
FixesValues ==
    << JArr(<<>>), JArr(<<LegacyItems[2]>>), JArr(<<LegacyItems[1]>>), JStr(S_Fix) >>

\* The legacy document with the items `features` under Features (no Features key
\* when hasFeatures is false), the fixes-th value under Fixes, one item under Docs
\* when docs is true, and a tldr of its own when tldr is true
LegacyDoc(hasFeatures, features, fixes, docs, tldr) ==
    JObj([k \in (IF hasFeatures THEN {"Features"} ELSE {})
                    \cup (IF fixes # 0 THEN {"Fixes"} ELSE {})
                    \cup (IF docs THEN {"Docs"} ELSE {})
                    \cup (IF tldr THEN {"tldr"} ELSE {}) |->
            CASE k = "Features" -> JArr([i \in DOMAIN features |-> LegacyItems[features[i]]])
              [] k = "Fixes" -> FixesValues[fixes]
              [] k = "Docs" -> JArr(<<LegacyItems[1]>>)
              [] k = "tldr" -> JArr(<<JStr(S_focus)>>)])

HelpersIdle ==
    /\ hdoc = JNull
    /\ hvalid = "none"
    /\ hfilled = [done |-> FALSE]
    /\ hcoerced = [done |-> FALSE]

\* A parsed document, before any helper is applied to it
HelpersInit ==
    /\ \/ \E f \in [DOMAIN RequiredKeys -> 0..3] : hdoc = TargetDoc(f)
       \/ \E i \in DOMAIN NonObjects : hdoc = NonObjects[i]
       \/ \E n \in 0..MaxItems :
            \E features \in [1..n -> DOMAIN LegacyItems] :
              \E hasFeatures \in {b \in BOOLEAN : b \/ n = 0} :
                \E fixes \in 0..Len(FixesValues) :
                  \E docs \in BOOLEAN, tldr \in BOOLEAN :
                      hdoc = LegacyDoc(hasFeatures, features, fixes, docs, tldr)
    /\ hvalid = "none"
    /\ hfilled = [done |-> FALSE]
    /\ hcoerced = [done |-> FALSE]

\* is_valid_release(hdoc)
IsValidRelease ==
    /\ hvalid = "none"
    /\ hvalid' = IF is_valid_release(hdoc) THEN "true" ELSE "false"
    /\ UNCHANGED <<hdoc, hfilled, hcoerced, cvars, pvars, mvars, rvars, fvars>>

\* _ensure_required_defaults(hdoc), and is_valid_release of what it returns
EnsureRequiredDefaults ==
    /\ ~hfilled.done
    /\ LET Filled(d) == [done |-> TRUE, doc |-> d, valid |-> is_valid_release(d)]
       IN hfilled' = Filled(_ensure_required_defaults(hdoc))
    /\ UNCHANGED <<hdoc, hvalid, hcoerced, cvars, pvars, mvars, rvars, fvars>>

\* _coerce_legacy(hdoc)
CoerceLegacy ==
    /\ ~hcoerced.done
    /\ LET Coerced(c) ==
               IF c.raised THEN [done |-> TRUE, raised |-> TRUE]
               ELSE [done |-> TRUE, raised |-> FALSE, doc |-> c.doc]
       IN hcoerced' = Coerced(_coerce_legacy(hdoc))
    /\ UNCHANGED <<hdoc, hvalid, hfilled, cvars, pvars, mvars, rvars, fvars>>

----------------------------------------------------------------------------
(* renderer.py: render_md applied to a document *)

S_m_ya_webapp == <<"m", "/", "Y", "A", "-", "w", "e", "b", "a", "p", "p">>
S_x_hq == <<"x", "/", "h", "q">>
S_note == <<"n", "o", "t", "e">>
S_Chore_padded == <<" ", "C", "h", "o", "r", "e", " ">>
S_date_later == <<"2", "0", "2", "6", "-", "1", "1", "-", "0", "4">>

\* Repository names for each rule of _product_for_repo and for none, and the empty
\* name
RenderNames == <<S_b_api, S_o_r, S_x_hq, <<>>, S_m_ya_webapp>>

\* A repository without sections, and one with three items in two sections, one of
\* them with no text and no prs
RenderRepo(name, shape) ==
    CASE shape = 1 -> Repo(name, <<>>)
      [] shape = 2 ->
            Repo(name, <<Section(S_Features, <<Item(S_Add, <<JInt(5)>>)>>),
                         Section(S_Chore_padded,
                                 <<Item(<<>>, <<>>), Item(S_Fix, <<JInt(7), JInt(5)>>)>>)>>)

RenderRepos == {RenderRepo(RenderNames[i], shape) : i \in DOMAIN RenderNames, shape \in 1..2}

\* The most repositories of a rendered document
MaxRenderRepos == 3

\* The lengths of tldr: around the ten entries that are rendered
TldrLengths == {0, 1, 9, 10, 11, 12}

\* A tldr of n entries, each different
TldrOf(n) == JArr([i \in 1..n |-> JStr(<<"f">> \o NatToStr(i))])

\* The document with the repos, a tldr of n entries (none when hasTldr is false) and
\* one upgrade note when notes is true. A tldr of more than one entry comes with at
\* most one repository.
RenderDoc(repos, hasTldr, n, notes) ==
    JObj([k \in {"repos", "upgrade_notes", "contributors"}
                    \cup (IF hasTldr THEN {"tldr"} ELSE {}) |->
            CASE k = "repos" -> JArr(repos)
              [] k = "tldr" -> TldrOf(n)
              [] k = "upgrade_notes" -> JArr(IF notes THEN <<JStr(S_note)>> ELSE <<>>)
              [] k = "contributors" -> JArr(<<>>)])

\* datetime.utcnow().strftime("%Y-%m-%d")
Dates == {S_date, S_date_later}

RenderIdle ==
    /\ rdoc = JNull
    /\ rmd = [done |-> FALSE]

RenderInit ==
    /\ \E k \in 0..MaxRenderRepos :
         \E repos \in [1..k -> RenderRepos] :
           \E n \in {m \in TldrLengths : m <= 1 \/ k <= 1} :
             \E hasTldr \in {b \in BOOLEAN : b \/ n = 0} :
               \E notes \in BOOLEAN :
                   rdoc = RenderDoc(repos, hasTldr, n, notes)
    /\ rmd = [done |-> FALSE]

\* render_md(rdoc)
RenderMd ==
    /\ ~rmd.done
    /\ \E today \in Dates :
         LET Joined(lines) ==
                 [done |-> TRUE, lines |-> lines, text |-> Join(lines, <<"\n">>)]
         IN rmd' = Joined(RenderLines(rdoc, today))
    /\ UNCHANGED <<rdoc, cvars, pvars, mvars, hvars, fvars>>

----------------------------------------------------------------------------
(* github_fetcher.py: GitHubFetcher.fetch_prs *)

\* per_page of the search request, and the size that ends the loop
PerPage == 100

\* The most search pages that are full
MaxPages == 2

\* How many items a search page holds; 0 is also a response without "items"
PageSizes == {0, 1, 2, PerPage - 1, PerPage}

\* The numbers of the n items of a page: the results are numbered in the order of
\* discovery
PageNumbers(page, n) == [i \in 1..n |-> (page - 1) * PerPage + i]

\* What the request for a record answers: the record, 404, or another error status.
\* At most one record of a page, its first or its last, is not answered with the
\* record.
Hydrations(n) ==
    {[at |-> 0, status |-> 200]}
        \cup {[at |-> at, status |-> status] : at \in {1, n}, status \in {404, 500}}

FetchIdle ==
    /\ fpc = "idle"
    /\ fdate_range = "none"
    /\ fpage = 0
    /\ fprs = <<>>
    /\ discovered = <<>>
    /\ pageSizes = <<>>
    /\ failed = {}

FetchInit ==
    /\ fpc = "start"
    /\ fdate_range = "none"
    /\ fpage = 0
    /\ fprs = <<>>
    /\ discovered = <<>>
    /\ pageSizes = <<>>
    /\ failed = {}

\* fetch_prs up to the loop: the previous tag when since_ref is missing (an error of
\* list_tags propagates), the date range of the compare (an HTTPError of compare is
\* caught), else since_date
FetchStart ==
    /\ fpc = "start"
    /\ \E since_ref \in BOOLEAN, until_ref \in BOOLEAN, since_date \in BOOLEAN :
         \E tags \in {"error", "none", "prev"}, cmp \in {"error", "empty", "commits"} :
            IF ~since_ref /\ tags = "error"
            THEN /\ fpc' = "raised"
                 /\ UNCHANGED <<fdate_range, fpage>>
            ELSE /\ fpc' = "search"
                 /\ fpage' = 1
                 /\ fdate_range' =
                        IF (since_ref \/ tags = "prev") /\ until_ref /\ cmp = "commits"
                        THEN "compare"
                        ELSE IF since_date THEN "since_date" ELSE "none"
    /\ UNCHANGED <<fprs, discovered, pageSizes, failed, cvars, pvars, mvars, hvars, rvars>>

\* The prs of the items of a page: _hydrate_pr of each number in order; None (404) is
\* skipped, another error status raises
Hydrated(numbers, hydration) ==
    LET Found(i) == hydration.at # i
    IN [raised |-> hydration.status = 500,
        prs |-> SelectSeq([i \in DOMAIN numbers |-> IF Found(i) THEN numbers[i] ELSE 0],
                          LAMBDA x : x # 0)]

\* One turn of `while True`: the search request, the records of its items, and the
\* end of the loop
FetchPage ==
    /\ fpc = "search"
    /\ \E status \in {200, 500} :
         \E n \in {m \in PageSizes : fpage <= MaxPages \/ m < PerPage} :
           \E hydration \in Hydrations(n) :
              LET Turn(numbers, got) ==
                      IF status # 200
                      THEN /\ fpc' = "raised"
                           /\ failed' = failed \cup {<<"search", fpage>>}
                           /\ UNCHANGED <<fpage, fprs, discovered, pageSizes>>
                      ELSE /\ discovered' = discovered \o numbers
                           /\ pageSizes' = Append(pageSizes, n)
                           /\ failed' = IF hydration.at \in DOMAIN numbers
                                        THEN failed \cup {<<"pulls", numbers[hydration.at]>>}
                                        ELSE failed
                           /\ IF n = 0
                              THEN fpc' = "returned" /\ UNCHANGED <<fpage, fprs>>
                              ELSE IF hydration.at \in DOMAIN numbers /\ got.raised
                              THEN fpc' = "raised" /\ UNCHANGED <<fpage, fprs>>
                              ELSE /\ fprs' = fprs \o got.prs
                                   /\ IF n < PerPage
                                      THEN fpc' = "returned" /\ UNCHANGED fpage
                                      ELSE fpc' = "search" /\ fpage' = fpage + 1
              IN Turn(PageNumbers(fpage, n), Hydrated(PageNumbers(fpage, n), hydration))
    /\ UNCHANGED <<fdate_range, cvars, pvars, mvars, hvars, rvars>>

----------------------------------------------------------------------------
(* Specifications *)

CNext == Start \/ AttemptCall \/ AttemptProcess \/ AttemptSleep \/ RepairCall \/ RepairProcess

ConsolidateIdle ==
    /\ cpc = "idle"
    /\ attempt = 0
    /\ temperature = 0
    /\ apiKey = FALSE
    /\ content = NoContent
    /\ invocations = <<>>
    /\ sleeps = <<>>
    /\ log = <<>>
    /\ outcome = Running

\* A call of consolidate_openai
Init == CInit /\ ClassifyIdle /\ MainIdle /\ HelpersIdle /\ RenderIdle /\ FetchIdle

Next == CNext

Spec == Init /\ [][Next]_vars

\* Calls of classify on a record
InitClassify == ClassifyInit /\ ConsolidateIdle /\ MainIdle /\ HelpersIdle /\ RenderIdle /\ FetchIdle

NextClassify == Classify \/ NewProcess

SpecClassify == InitClassify /\ [][NextClassify]_vars

\* Runs of main
InitMain == MainInit /\ ConsolidateIdle /\ ClassifyIdle /\ HelpersIdle /\ RenderIdle /\ FetchIdle

NextMain == MainStart \/ MainFetchRepo \/ MainConsolidate

SpecMain == InitMain /\ [][NextMain]_vars

\* The helpers applied to a parsed document
InitHelpers == HelpersInit /\ ConsolidateIdle /\ ClassifyIdle /\ MainIdle /\ RenderIdle /\ FetchIdle

NextHelpers == IsValidRelease \/ EnsureRequiredDefaults \/ CoerceLegacy

SpecHelpers == InitHelpers /\ [][NextHelpers]_vars

\* render_md applied to a document
InitRender == RenderInit /\ ConsolidateIdle /\ ClassifyIdle /\ MainIdle /\ HelpersIdle /\ FetchIdle

NextRender == RenderMd

SpecRender == InitRender /\ [][NextRender]_vars

\* A call of fetch_prs
InitFetch ==
    FetchInit /\ ConsolidateIdle /\ ClassifyIdle /\ MainIdle /\ HelpersIdle /\ RenderIdle

NextFetch == FetchStart \/ FetchPage

SpecFetch == InitFetch /\ [][NextFetch]_vars

----------------------------------------------------------------------------
(* Claims about consolidate_openai, checked under Spec *)

\* "At least one non-empty items list across all repos and sections", read off a
\* schema-valid document
HasNonEmptyItems(doc) ==
    \E i \in DOMAIN doc.v["repos"].v :
        \E j \in DOMAIN doc.v["repos"].v[i].v["sections"].v :
            Len(doc.v["repos"].v[i].v["sections"].v[j].v["items"].v) > 0

\* The attempts that were logged as failed, by their number n
FailedAttempts == {log[i].n : i \in {k \in DOMAIN log : log[k].event \in {"parse_failed", "invalid"}}}

RepairCalled == \E i \in DOMAIN invocations : invocations[i].tier = "repair"

\* C1: whenever consolidate_openai returns a document, from an attempt or from the
\* repair, validated directly or coerced, the document is schema-valid and has at
\* least one non-empty items list; a schema-valid document without items is never
\* returned.
C1_ReturnedValidWithContent ==
    outcome.kind = "returned" =>
        /\ cpc = "done"
        /\ is_valid_release(outcome.doc)
        /\ HasNonEmptyItems(outcome.doc)

\* C1 witness: the repair call's answer was returned after legacy coercion
C1_Witness ==
    /\ outcome.kind = "returned"
    /\ outcome.via = "coerced"
    /\ RepairCalled

\* C2: at most four model calls: attempts 1, 2, 3 in that order at the configured
\* temperature with the system and user messages, then at most one repair call at
\* temperature 0 with the repair prompt appended; the repair call is made only
\* after three failed attempts, and once three attempts have failed nothing but the
\* repair call follows.
C2_CallBudget ==
    /\ Len(invocations) <= 4
    /\ \A i \in DOMAIN invocations :
          IF i <= 3
          THEN invocations[i] = [tier |-> "attempt", n |-> i, temperature |-> temperature,
                                 messages |-> <<SystemMessage, UserMessage>>]
          ELSE invocations[i] = [tier |-> "repair", n |-> 4, temperature |-> 0,
                                 messages |-> <<SystemMessage, UserMessage, RepairMessage>>]
    /\ RepairCalled => FailedAttempts = {1, 2, 3}
    /\ (FailedAttempts = {1, 2, 3} /\ ~RepairCalled) => cpc \in {"attempt_sleep", "repair_call"}
    /\ cpc = "done" => (RepairCalled <=> FailedAttempts = {1, 2, 3})

\* C2 witness: a run that made all four calls and ended
C2_Witness == cpc = "done" /\ Len(invocations) = 4 /\ RepairCalled

\* A failure of the repair tier: the repair call gave a content and the run raised
RepairTierFailed ==
    /\ RepairCalled
    /\ outcome.kind = "raised"
    /\ outcome.error \notin CallErrors

C4_CallErrorPropagates ==
    /\ (outcome.kind = "raised" /\ outcome.error \in CallErrors) =>
          /\ cpc = "done"
          /\ Len(invocations) >= 1
          /\ Len(sleeps) = Len(invocations) - 1
          /\ Cardinality(FailedAttempts) = Len(invocations) - 1
          /\ log[Len(log)].event \in {"attempt", "repair"}
          /\ log[Len(log)].n = Len(invocations)
    /\ (outcome.kind = "raised" /\ ~RepairCalled /\ Len(invocations) > 0) =>
          outcome.error \in CallErrors
    /\ \A n \in FailedAttempts :
          \/ cpc = "attempt_sleep" /\ attempt = n - 1 /\ Len(sleeps) = n - 1
          \/ Len(sleeps) >= n /\ (Len(invocations) > n \/ cpc \in {"attempt_call", "repair_call"})

\* C4 witness: the second attempt's call failed after the first attempt's answer
\* was rejected
C4_Witness ==
    /\ outcome.kind = "raised"
    /\ outcome.error = "APIError"
    /\ Len(invocations) = 2
    /\ FailedAttempts = {1}

----------------------------------------------------------------------------
(* Claims about classify *)

\* The first whitespace-delimited token of a title
FirstWhitespaceToken(title) == UpTo(LStrip(title, Whitespace), Whitespace)

\* The first space-delimited token of a title: empty when the title starts with
\* a space
FirstSpaceToken(title) == UpTo(title, {" "})

\* Whether t is kind, in any case, followed by ":", "!:" or a parenthesised scope
\* and ":" or "!:"
HasPrefix(t, kind) ==
    \E n \in 0..Len(t) :
        /\ n = Len(kind)
        /\ Lower(Take(t, n)) = kind
        /\ \E m \in (n + 1)..Len(t) :
              /\ t[m] = ":"
              /\ \/ m = n + 1
                 \/ m = n + 2 /\ t[n + 1] = "!"
                 \/ /\ t[n + 1] = "("
                    /\ \/ t[m - 1] = ")" /\ m - 1 > n + 1
                       \/ t[m - 1] = "!" /\ m - 2 > n + 1 /\ t[m - 2] = ")"
                    /\ \A i \in (n + 1)..m : t[i] # "\n"

\* The category each conventional kind stands for
KindCategories ==
    <<[kind |-> S_feat, category |-> S_Features],
      [kind |-> S_fix, category |-> S_Fixes],
      [kind |-> S_perf, category |-> S_Fixes],
      [kind |-> S_docs, category |-> S_Chore],
      [kind |-> S_refactor, category |-> S_Chore],
      [kind |-> S_chore, category |-> S_Chore]>>

HasAnyPrefix(t) == \E k \in DOMAIN KindCategories : HasPrefix(t, KindCategories[k].kind)

FeatureLabels == {S_feature, S_enhancement, S_type_feat, S_feat}

PerfLabels == {S_perf, S_performance}

\* C7, as stated: a record whose title's first whitespace-delimited token contains
\* "!" is classified breaking and Features, whatever its labels and its kind.
C7_BangIsBreakingFeatures ==
    \A i \in DOMAIN results :
        "!" \in Chars(FirstWhitespaceToken(pr.title)) =>
            results[i].is_breaking /\ results[i].category = S_Features

\* C7, amended: a record whose title's first space-delimited token contains "!" is
\* classified breaking, whatever its labels; its category is Features unless the
\* stripped title has a conventional prefix, whose category it then is.
C7_BangIsBreaking ==
    \A i \in DOMAIN results :
        "!" \in Chars(FirstSpaceToken(pr.title)) =>
            /\ results[i].is_breaking
            /\ ~HasAnyPrefix(Strip(pr.title, Whitespace)) => results[i].category = S_Features
            /\ \A k \in DOMAIN KindCategories :
                  HasPrefix(Strip(pr.title, Whitespace), KindCategories[k].kind) =>
                      results[i].category = KindCategories[k].category

\* A record labelled bug and docs, with "!" in its title's first token and no
\* conventional prefix, has been classified breaking and Features
C7_Witness ==
    /\ results # <<>>
    /\ "!" \in Chars(FirstSpaceToken(pr.title))
    /\ ~HasAnyPrefix(Strip(pr.title, Whitespace))
    /\ pr.labels = {S_bug, S_docs}
    /\ pr.body_excerpt = <<>>
    /\ results[1].is_breaking
    /\ results[1].category = S_Features

\* C8: the category of a record whose title matches the conventional prefix
\* pattern, case-insensitively, is the category of its kind, whatever its labels.
C8_PrefixOverridesLabels ==
    \A i \in DOMAIN results :
        \A k \in DOMAIN KindCategories :
            HasPrefix(pr.title, KindCategories[k].kind) =>
                results[i].category = KindCategories[k].category

\* A record titled "Fix:", in upper case, and labelled feature has been classified
\* Fixes
C8_Witness ==
    /\ results # <<>>
    /\ pr.title = S_Fix_upper \o <<":">>
    /\ S_feature \in pr.labels
    /\ results[1].category = S_Fixes

\* C9, as stated: a record labelled perf or performance whose title has no
\* conventional prefix is classified Fixes, whatever its other labels.
C9_PerfIsFixes ==
    \A i \in DOMAIN results :
        /\ pr.labels \cap PerfLabels # {}
        /\ ~HasAnyPrefix(Strip(pr.title, Whitespace))
        => results[i].category = S_Fixes

\* C9, amended: a record labelled perf or performance, in any case, that is not
\* flagged breaking, carries no feature label and whose stripped title has no
\* conventional prefix is classified Fixes, whatever its other labels.
C9_PerfIsFixesUnlessFeature ==
    \A i \in DOMAIN results :
        /\ {Lower(l) : l \in pr.labels} \cap PerfLabels # {}
        /\ {Lower(l) : l \in pr.labels} \cap FeatureLabels = {}
        /\ ~results[i].is_breaking
        /\ ~HasAnyPrefix(Strip(pr.title, Whitespace))
        => results[i].category = S_Fixes

\* A record labelled performance and docs, neither breaking nor prefixed, has been
\* classified Fixes
C9_Witness ==
    /\ results # <<>>
    /\ pr.labels = {S_performance, S_docs}
    /\ ~HasAnyPrefix(Strip(pr.title, Whitespace))
    /\ ~results[1].is_breaking
    /\ results[1].category = S_Fixes

\* C10, as stated: the calls of classify on a record all return the same triple,
\* whose category is one of the three.
C10_SameTripleOnEveryCall ==
    \A i, j \in DOMAIN results :
        /\ results[i] = results[j]
        /\ results[i].category \in CATEGORIES

----------------------------------------------------------------------------
(* Claims about main *)

\* The link of a change request
PrLink(repo, n) == S_PR_open \o n \o S_PR_url \o repo \o S_pull \o n \o <<")">>

\* The product heading of a repository and, under it, a bullet for each of the two
\* items, each ending in its link
TwoBullets(repo) ==
    <<"*", "*">> \o _product_for_repo(repo) \o <<"*", "*", "\n">>
        \o <<"-", " ">> \o S_sparkles \o <<" ">> \o S_Add \o <<" ">> \o PrLink(repo, <<"5">>)
        \o <<"\n">>
        \o <<"-", " ">> \o S_bug_emoji \o <<" ">> \o S_Fix \o <<" ">> \o PrLink(repo, <<"7">>)

\* A run with one repository whose fetch gave a Features and a Fixes record and
\* whose model answers with a valid document of one section and one item for each
EndToEndRun ==
    /\ ~run.llm_only
    /\ Len(run.repos) = 1
    /\ Len(snapshots) = 1
    /\ Len(snapshots[1].prs) = 2
    /\ snapshots[1].prs[1].category = S_Features
    /\ snapshots[1].prs[2].category = S_Fixes
    /\ run.api_key
    /\ run.endpoint = [error |-> "", content |-> Json(TwoSections(run.repos[1].full_name))]

\* C5, as stated: an end-to-end run invokes the model exactly once, reaches the
\* renderer and the file write, and writes two bullets under the product heading
\* of the repository, each ending in its link.
C5_EndToEndSuccess ==
    (mpc = "done" /\ EndToEndRun) =>
        /\ modelCalls = 1
        /\ rendered
        /\ outfile.opened
        /\ Contains(outfile.text, TwoBullets(run.repos[1].full_name))

\* C6: when main has ended otherwise than with exit code 0, render_md has not been
\* called and the output file has not been opened; whenever either has happened,
\* consolidate_openai has returned.
C6_NoOutputOnFatalError ==
    /\ exitStatus \notin {"running", "0"} => ~rendered /\ ~outfile.opened
    /\ (rendered \/ outfile.opened) => llm_out.kind = "returned"

\* A run has fetched and classified the records of its repository and has ended
\* in the error the call of consolidate_openai raised, with nothing rendered or
\* written
C6_Witness ==
    /\ mpc = "done"
    /\ Len(snapshots) = 1
    /\ Len(snapshots[1].prs) = 2
    /\ llm_out.kind = "raised"
    /\ exitStatus = llm_out.error
    /\ ~rendered
    /\ ~outfile.opened

----------------------------------------------------------------------------
(* Claims about the schema and the helpers of the consolidator *)

\* A JSON object without at least one of the four required keys
MissingRequired(d) == d.t = "obj" /\ ~(RequiredTop \subseteq DOMAIN d.v)

\* Whether each required key the document has holds what the schema asks for
PresentFieldsConform(d) ==
    \A k \in DOMAIN d.v \cap RequiredTop :
        IF k = "repos"
        THEN d.v[k].t = "arr" /\ \A i \in DOMAIN d.v[k].v : ValidRepo(d.v[k].v[i])
        ELSE IsStringArray(d.v[k])

\* C11, as stated: a document without one of the required fields is not valid, and
\* is valid once the defaults are filled in.
C11_ValidAfterDefaults ==
    MissingRequired(hdoc) =>
        /\ hvalid # "true"
        /\ hfilled.done => hfilled.valid

\* C11, amended: a document without one of the required fields is not valid; once
\* the defaults are filled in it is valid exactly when the required fields it did
\* have conform to the schema.
C11_ValidAfterDefaultsIfPresentConform ==
    MissingRequired(hdoc) =>
        /\ hvalid # "true"
        /\ hfilled.done => (hfilled.valid <=> PresentFieldsConform(hdoc))

\* A document with conforming repos and nothing else has been found not valid, and
\* valid once filled
C11_Witness ==
    /\ hdoc.t = "obj"
    /\ DOMAIN hdoc.v = {"repos"}
    /\ hdoc.v["repos"] = ReposWithItems
    /\ hvalid = "false"
    /\ hfilled.done
    /\ hfilled.valid

\* A document with one of the keys that make it legacy
IsLegacy(d) == d.t = "obj" /\ DOMAIN d.v \cap {"Features", "Fixes", "Chore"} # {}

\* The items of a legacy document under a category key: none when the key is
\* absent or its value is empty
LegacyItemsOf(d, key) ==
    IF key \in DOMAIN d.v /\ Truthy(d.v[key]) THEN d.v[key] ELSE JArr(<<>>)

\* The text of a legacy item: its title, else its description, else empty
LegacyText(it) ==
    IF "title" \in DOMAIN it.v /\ Truthy(it.v["title"]) THEN it.v["title"]
    ELSE IF "description" \in DOMAIN it.v /\ Truthy(it.v["description"])
    THEN it.v["description"]
    ELSE JStr(<<>>)

\* A legacy document whose categories are lists of objects with a text that is a
\* string
WellFormedLegacy(d) ==
    /\ IsLegacy(d)
    /\ \A c \in DOMAIN CATEGORY_TITLES :
          LET WellFormed(items) ==
                  /\ items.t = "arr"
                  /\ \A i \in DOMAIN items.v :
                        items.v[i].t = "obj" /\ LegacyText(items.v[i]).t = "str"
          IN WellFormed(LegacyItemsOf(d, CATEGORY_TITLES[c].key))

\* The repository a legacy item goes to and the schema item it becomes
LegacyRepo(it) ==
    LET Name(ex) == IF ex.name = <<>> THEN S_unknown_unknown ELSE ex.name
    IN Name(_extract_owner_repo_and_number(
                IF "url" \in DOMAIN it.v /\ Truthy(it.v["url"]) THEN it.v["url"]
                ELSE JStr(<<>>)))

LegacyPrs(it) ==
    LET Prs(ex) == IF ex.num > 0 THEN <<JInt(ex.num)>> ELSE <<>>
    IN Prs(_extract_owner_repo_and_number(
               IF "url" \in DOMAIN it.v /\ Truthy(it.v["url"]) THEN it.v["url"]
               ELSE JStr(<<>>)))

\* The items of a category that go to the repository name, in input order, as
\* schema items
ExpectedItems(d, key, name) ==
    LET OfRepo(it) == LegacyRepo(it) = name
        Made(its) ==
            [i \in DOMAIN its |->
                JObj([text |-> LegacyText(its[i]), prs |-> JArr(LegacyPrs(its[i]))])]
    IN Made(SelectSeq(LegacyItemsOf(d, key).v, OfRepo))

\* The repositories the items of a legacy document go to
LegacyRepos(d) ==
    UNION {{LegacyRepo(LegacyItemsOf(d, CATEGORY_TITLES[c].key).v[i]) :
                i \in DOMAIN LegacyItemsOf(d, CATEGORY_TITLES[c].key).v} :
           c \in DOMAIN CATEGORY_TITLES}

\* Where the repos of a document have a section titled title in a repository
\* called name
SectionsTitled(repos, name, title) ==
    {ij \in (DOMAIN repos) \X (1..MaxItems * Len(CATEGORY_TITLES)) :
        /\ repos[ij[1]].v["name"].v = name
        /\ ij[2] \in DOMAIN repos[ij[1]].v["sections"].v
        /\ repos[ij[1]].v["sections"].v[ij[2]].v["title"].v = title}

\* What C12 says of the document coerced from d
CoercedAsClaimed(d, out) ==
    /\ is_valid_release(out)
    /\ out.v["tldr"].v = <<>>
    /\ out.v["upgrade_notes"].v = <<>>
    /\ out.v["contributors"].v = <<>>
    /\ \A i \in DOMAIN out.v["repos"].v : out.v["repos"].v[i].v["name"].v \in LegacyRepos(d)
    /\ \A c \in DOMAIN CATEGORY_TITLES : \A name \in LegacyRepos(d) :
          LET Holds(expected, at) ==
                  IF expected = <<>> THEN at = {}
                  ELSE /\ Cardinality(at) = 1
                       /\ \A ij \in at :
                             out.v["repos"].v[ij[1]].v["sections"].v[ij[2]].v["items"].v
                                 = expected
          IN Holds(ExpectedItems(d, CATEGORY_TITLES[c].key, name),
                   SectionsTitled(out.v["repos"].v, name, CATEGORY_TITLES[c].title))
    /\ LegacyRepos(d) # {} => _has_minimal_content(out)

\* C12, as stated: _coerce_legacy turns every document with a legacy key into a
\* valid document with empty tldr, upgrade_notes and contributors and one section
\* for each category and repository with items, holding them in input order; with
\* minimal content when there is an item.
C12_CoercionValid ==
    (IsLegacy(hdoc) /\ hcoerced.done) =>
        ~hcoerced.raised /\ CoercedAsClaimed(hdoc, hcoerced.doc)

\* C12, amended: the same of every legacy document whose category values are lists
\* of objects, each with a text (title, else description) that is a string.
C12_CoercionValidIfWellFormed ==
    (WellFormedLegacy(hdoc) /\ hcoerced.done) =>
        ~hcoerced.raised /\ CoercedAsClaimed(hdoc, hcoerced.doc)

\* A legacy document with two Features items of two repositories and a Fixes item
\* has been coerced into a document with minimal content
C12_Witness ==
    /\ WellFormedLegacy(hdoc)
    /\ Cardinality(LegacyRepos(hdoc)) = 2
    /\ Len(LegacyItemsOf(hdoc, "Features").v) = 2
    /\ Len(LegacyItemsOf(hdoc, "Fixes").v) = 1
    /\ hcoerced.done
    /\ ~hcoerced.raised
    /\ _has_minimal_content(hcoerced.doc)

\* The parts of the path of an item's url, none when the item has no url that is a
\* string
UrlParts(it) ==
    IF "url" \in DOMAIN it.v /\ it.v["url"].t = "str"
    THEN Split(Strip(UrlPath(it.v["url"].v), {"/"}), "/")
    ELSE <<>>

\* The url of the item has the shape host/owner/repo/pull/number
IsPullUrl(it) ==
    LET Matches(parts) ==
            /\ Len(parts) >= 4
            /\ parts[3] = <<"p", "u", "l", "l">>
            /\ parts[4] # <<>>
            /\ \A k \in DOMAIN parts[4] : parts[4][k] \in Digits
    IN Matches(UrlParts(it))

\* The schema item and the repository C13 gives a legacy item
ClaimedRepo(it) ==
    IF IsPullUrl(it) THEN UrlParts(it)[1] \o <<"/">> \o UrlParts(it)[2]
    ELSE S_unknown_unknown

ClaimedItem(it) ==
    JObj([text |-> LegacyText(it),
          prs |-> JArr(IF IsPullUrl(it) THEN <<JInt(DigitsValue(UrlParts(it)[4], 0))>>
                       ELSE <<>>)])

\* The document has the item in a section titled title of the repository name
InSection(out, name, title, item) ==
    \E ij \in SectionsTitled(out.v["repos"].v, name, title) :
        LET Has(items) == \E k \in DOMAIN items : items[k] = item
        IN Has(out.v["repos"].v[ij[1]].v["sections"].v[ij[2]].v["items"].v)

\* C13: in the document coerced from a legacy document, an item whose url has the
\* shape host/owner/repo/pull/number is in repository owner/repo with prs = [number],
\* and every other item is in unknown/unknown with prs empty.
C13_PullUrlOrSentinel ==
    (WellFormedLegacy(hdoc) /\ hcoerced.done /\ ~hcoerced.raised) =>
        \A c \in DOMAIN CATEGORY_TITLES :
            LET Placed(items) ==
                    \A i \in DOMAIN items :
                        InSection(hcoerced.doc, ClaimedRepo(items[i]),
                                  CATEGORY_TITLES[c].title, ClaimedItem(items[i]))
            IN Placed(LegacyItemsOf(hdoc, CATEGORY_TITLES[c].key).v)

\* The same of the documents none of whose items has a url with third segment other
\* than pull or with number 0: the divergence is those two
C13_PullUrlOrSentinelElsewhere ==
    (/\ WellFormedLegacy(hdoc)
     /\ hcoerced.done
     /\ ~hcoerced.raised
     /\ \A i \in DOMAIN LegacyItemsOf(hdoc, "Features").v :
            LET Plain(it) == IsPullUrl(it) = (LegacyPrs(it) # <<>>)
            IN Plain(LegacyItemsOf(hdoc, "Features").v[i]))
        => C13_PullUrlOrSentinel
----------------------------------------------------------------------------
(* Claims about render_md, checked under SpecRender *)

\* The lines of the text render_md returned
Lines == rmd.lines

\* The lines that follow line h up to the next blank line
BlockAfter(lines, h) ==
    LET Until(ends) ==
            IF ends = {} THEN SubSeq(lines, h + 1, Len(lines))
            ELSE SubSeq(lines, h + 1, (CHOOSE e \in ends : \A f \in ends : e <= f) - 1)
    IN Until({e \in (h + 1)..Len(lines) : lines[e] = <<>>})

\* A line is a bullet
IsBullet(line) == line # <<>> /\ Head(line) = "-"

\* The tldr of the rendered document
TldrEntries == IF "tldr" \in DOMAIN rdoc.v THEN rdoc.v["tldr"].v ELSE <<>>

\* C14: render_md emits under the focus-areas heading exactly min(len(tldr), 10)
\* bullet lines, the first entries of tldr in input order; with an empty tldr
\* it emits neither the heading nor a focus bullet.
C14_FocusBullets ==
    rmd.done =>
        LET Emitted(lines, tldr, at) ==
                IF tldr = <<>>
                THEN at = {} /\ (Len(lines) >= 3 => ~IsBullet(lines[3]))
                ELSE /\ at = {3}
                     /\ BlockAfter(lines, 3)
                            = [i \in 1..(IF Len(tldr) < 10 THEN Len(tldr) ELSE 10) |->
                                  <<"-", " ">> \o tldr[i].v]
        IN Emitted(Lines, TldrEntries, {h \in DOMAIN Lines : Lines[h] = S_Focus_areas})

\* A document with a tldr of twelve entries has been rendered with ten focus bullets
C14_Witness ==
    /\ rmd.done
    /\ Len(TldrEntries) = 12
    /\ Lines[3] = S_Focus_areas
    /\ Len(BlockAfter(Lines, 3)) = 10
    /\ \A i \in 1..10 : IsBullet(BlockAfter(Lines, 3)[i])

\* A line is a product heading, and the product it names
IsHeading(line) ==
    Len(line) >= 4 /\ SubSeq(line, 1, 2) = <<"*", "*">>
                   /\ SubSeq(line, Len(line) - 1, Len(line)) = <<"*", "*">>

HeadingLabel(line) == SubSeq(line, 3, Len(line) - 2)

\* The product headings of the rendered text, in order
Headings ==
    LET Labels(heads) == [i \in DOMAIN heads |-> HeadingLabel(heads[i])]
    IN Labels(SelectSeq(Lines, IsHeading))

\* Where the product is first seen in the scan of repos, sections and items
FirstSeen(scanned, product) ==
    CHOOSE k \in DOMAIN scanned :
        /\ scanned[k].product = product
        /\ \A l \in 1..(k - 1) : scanned[l].product # product

\* The bullets of the product in the order of the scan
BulletsOf(scanned, product) ==
    LET OfProduct(b) == b.product = product
        Texts(bs) == [i \in DOMAIN bs |-> bs[i].bullet]
    IN Texts(SelectSeq(scanned, OfProduct))

\* C15: the product headings are the products of the items, each once, in the
\* order in which the scan of repos, sections and items first sees them, and under
\* each heading are the bullets of that product's items in input order.
C15_StableGrouping ==
    rmd.done =>
        LET Grouped(scanned, heads) ==
                /\ \A i, j \in DOMAIN heads : heads[i] = heads[j] => i = j
                /\ {heads[i] : i \in DOMAIN heads}
                       = {scanned[k].product : k \in DOMAIN scanned}
                /\ \A i, j \in DOMAIN heads :
                       i < j => FirstSeen(scanned, heads[i]) < FirstSeen(scanned, heads[j])
                /\ \A h \in DOMAIN Lines :
                       IsHeading(Lines[h]) =>
                           BlockAfter(Lines, h) = BulletsOf(scanned, HeadingLabel(Lines[h]))
        IN Grouped(DocBullets(rdoc), Headings)

\* A document with repositories x/hq, b/api, x/hq has been rendered: hq comes before
\* API, and the six items of the two x/hq entries are under the one hq heading
C15_Witness ==
    /\ rmd.done
    /\ Len(rdoc.v["repos"].v) = 3
    /\ rdoc.v["repos"].v[1] = RenderRepo(S_x_hq, 2)
    /\ rdoc.v["repos"].v[2] = RenderRepo(S_b_api, 2)
    /\ rdoc.v["repos"].v[3] = RenderRepo(S_x_hq, 2)
    /\ Headings = <<S_hq, S_API>>
    /\ \E h \in DOMAIN Lines :
          Lines[h] = <<"*", "*">> \o S_hq \o <<"*", "*">> /\ Len(BlockAfter(Lines, h)) = 6

\* The items of the repos: repository, section and item numbers
ItemsOf(repos) ==
    UNION {UNION {{<<i, j, k>> : k \in DOMAIN repos[i].v["sections"].v[j].v["items"].v} :
                  j \in DOMAIN repos[i].v["sections"].v} :
           i \in DOMAIN repos}

\* The bullet lines under the product headings: heading line and place under it
BulletLines ==
    UNION {{<<h, k>> : k \in {l \in DOMAIN BlockAfter(Lines, h) :
                                  IsBullet(BlockAfter(Lines, h)[l])}} :
           h \in {g \in DOMAIN Lines : IsHeading(Lines[g])}}

\* For each item in the order of the scan, the label _product_for_repo gives the
\* name of its repository; with `sentinel`, an empty name counts as unknown/unknown
ItemLabels(repos, sentinel) ==
    LET Label(name) ==
            _product_for_repo(IF sentinel /\ name = <<>> THEN S_unknown_unknown ELSE name)
    IN ConcatAll([i \in DOMAIN repos |->
                     [k \in 1..Cardinality(ItemsOf(<<repos[i]>>)) |->
                         Label(repos[i].v["name"].v)]])

\* No item is lost or duplicated: as many bullet lines under product headings as
\* items, under each heading a bullet, and the bullets under a heading are those of
\* the items with that label
NoItemLost(sentinel) ==
    LET Under(scanned, labels) ==
            LET Labelled(bs) == BulletsOf([k \in DOMAIN scanned |->
                                    [product |-> labels[k], bullet |-> scanned[k].bullet]], bs)
            IN /\ Len(labels) = Len(scanned)
               /\ \A k \in DOMAIN labels :
                     \E h \in DOMAIN Lines :
                         IsHeading(Lines[h]) /\ HeadingLabel(Lines[h]) = labels[k]
               /\ \A h \in DOMAIN Lines :
                     IsHeading(Lines[h]) =>
                         /\ BlockAfter(Lines, h) # <<>>
                         /\ IsBullet(BlockAfter(Lines, h)[1])
                         /\ BlockAfter(Lines, h) = Labelled(HeadingLabel(Lines[h]))
    IN /\ Cardinality(BulletLines) = Cardinality(ItemsOf(rdoc.v["repos"].v))
       /\ Under(DocBullets(rdoc), ItemLabels(rdoc.v["repos"].v, sentinel))

\* C19, as stated: for every schema-valid document render_md emits as many bullet
\* lines under product headings as there are items, each item's bullet under the
\* heading _product_for_repo gives the name of its repository, and every heading
\* is followed by a bullet.
C19_NoItemLost ==
    (rmd.done /\ is_valid_release(rdoc)) => NoItemLost(FALSE)

\* C19, amended: the same, the items of a repository with an empty name being under
\* the heading of unknown/unknown.
C19_NoItemLostSentinel ==
    (rmd.done /\ is_valid_release(rdoc)) => NoItemLost(TRUE)

\* A schema-valid document with nine items in three repositories, one of them with
\* an empty name, has been rendered with nine bullet lines under three headings
C19_Witness ==
    /\ rmd.done
    /\ is_valid_release(rdoc)
    /\ Len(rdoc.v["repos"].v) = 3
    /\ rdoc.v["repos"].v[1] = RenderRepo(S_m_ya_webapp, 2)
    /\ rdoc.v["repos"].v[2] = RenderRepo(<<>>, 2)
    /\ rdoc.v["repos"].v[3] = RenderRepo(S_o_r, 2)
    /\ Headings = <<S_Syrup, S_unknown_unknown, S_o_r>>
    /\ Cardinality(BulletLines) = 9
----------------------------------------------------------------------------
(* Claims about fetch_prs, checked under SpecFetch *)

\* The loop has gone on after full pages only, and has ended only after a page that
\* is empty or not full
StopsOnShortPage ==
    /\ \A p \in 1..(Len(pageSizes) - 1) : pageSizes[p] = 100
    /\ fpc = "search" => fpage = Len(pageSizes) + 1
                            /\ \A p \in DOMAIN pageSizes : pageSizes[p] = 100
    /\ fpc = "returned" => pageSizes # <<>> /\ pageSizes[Len(pageSizes)] < 100

\* C16: fetch_prs returns the records of all the search results of all pages in the
\* order of discovery, or raises: it never returns after a request for a search
\* page or a record has failed; and the loop stops exactly at a page that is empty
\* or has fewer than 100 items.
C16_CompleteOrRaises ==
    /\ fpc = "returned" => fprs = discovered /\ failed = {}
    /\ StopsOnShortPage

\* The same, a record answered with 404 aside: what fetch_prs returns is the
\* discovered records but those, in order, and every other failure raises
C16_CompleteBut404 ==
    /\ fpc = "returned" =>
          LET Answered(n) == <<"pulls", n>> \notin failed
          IN /\ fprs = SelectSeq(discovered, Answered)
             /\ \A f \in failed : f[1] = "pulls"
    /\ StopsOnShortPage
----------------------------------------------------------------------------
(* Claims about the waits and the tiers of consolidate_openai, checked under Spec *)

\* The double before x, for an x whose significand is not a power of two: one unit
\* in the last place less
IsJustBelow(y, x) == y.p = x.p /\ AddBits(y.bits, <<1>>) = <<0>> \o x.bits

\* The waits follow the failed attempts only: one after each of them, before the
\* next call, and none after an attempt that returned or after the repair
WaitsFollowFailures ==
    /\ Len(sleeps) <= 3
    /\ Len(sleeps) = Cardinality(FailedAttempts) - (IF cpc = "attempt_sleep" THEN 1 ELSE 0)
    /\ \A i \in DOMAIN invocations : i > 1 => Len(sleeps) >= i - 1
    /\ cpc = "done" /\ outcome.kind = "returned" /\ ~RepairCalled =>
           Len(sleeps) = Len(invocations) - 1
    /\ RepairCalled => Len(sleeps) = 3

\* C17, as stated: the wait after the failed attempt n is 1.2 * n seconds: 1.2, 2.4
\* and 3.6, which is 7.2 seconds up to the repair; no wait follows a successful
\* attempt or the repair.
C17_LinearBackoff ==
    /\ WaitsFollowFailures
    /\ \A k \in DOMAIN sleeps : sleeps[k] = FloatLiteral(12 * k, 10)

\* C17, amended: the waits are what 1.2 * n gives in double precision: 1.2, 2.4 and
\* the double just below 3.6.
C17_LinearBackoffInDoubles ==
    /\ WaitsFollowFailures
    /\ Len(sleeps) >= 1 => sleeps[1] = FloatLiteral(12, 10)
    /\ Len(sleeps) >= 2 => sleeps[2] = FloatLiteral(24, 10)
    /\ Len(sleeps) >= 3 => IsJustBelow(sleeps[3], FloatLiteral(36, 10))

\* Three attempts have failed, three waits were made and the repair was called
C17_Witness ==
    /\ RepairCalled
    /\ FailedAttempts = {1, 2, 3}
    /\ Len(sleeps) = 3
    /\ cpc = "done"

\* The tiers have been applied to a content that parsed: an attempt has returned or
\* gone on to its wait, or the repair has returned or failed
TiersApplied ==
    /\ content.k = "json"
    /\ \/ cpc = "attempt_sleep"
       \/ cpc = "done" /\ outcome.kind = "returned"
       \/ cpc = "done" /\ RepairTierFailed

\* C18: in an attempt and in the repair alike, the default-filled response is
\* returned as it is when it is schema-valid with minimal content, also when it has
\* legacy keys; else the coerced document is returned at once when the coercion gives
\* one that is schema-valid with minimal content; else the tier has failed, an
\* exception of the coercion included, and nothing of it is propagated: the attempt
\* goes on to its wait, the repair raises its own error for the uncoerced document.
C18_TierOrder ==
    TiersApplied =>
        LET Failed(data) ==
                IF RepairCalled
                THEN /\ cpc = "done"
                     /\ outcome.kind = "raised"
                     /\ outcome.error \in {"ValidationError", "ValueError"}
                     /\ outcome.doc = data
                ELSE cpc = "attempt_sleep" /\ outcome = Running
            Coerced(data, filled) ==
                IF is_valid_release(filled) /\ _has_minimal_content(filled)
                THEN cpc = "done" /\ outcome = Returned(filled, "coerced")
                ELSE Failed(data)
            Coercion(data, c) ==
                IF c.raised THEN Failed(data)
                ELSE Coerced(data, _ensure_required_defaults(c.doc))
            Tiers(data) ==
                IF is_valid_release(data) /\ _has_minimal_content(data)
                THEN cpc = "done" /\ outcome = Returned(data, "validated")
                ELSE Coercion(data, _coerce_legacy(data))
        IN Tiers(_ensure_required_defaults(content.j))

\* A response that is schema-valid with minimal content and has a legacy key as well
\* has been returned as it is
C18_Witness ==
    /\ cpc = "done"
    /\ outcome.kind = "returned"
    /\ outcome.via = "validated"
    /\ content.k = "json"
    /\ IsLegacy(content.j)
    /\ outcome.doc = content.j
    /\ ~_coerce_legacy(content.j).raised

====
